---- MODULE Spec2Model ----
(***************************************************************************)
(* The rath compiler frontend: tokenizer (Lexer), token lookahead buffer,  *)
(* recursive-descent / precedence-climbing parser, the syntax-tree heap    *)
(* with its destructors, and the constant-folding pass.                    *)
(*                                                                         *)
(* A source text is a sequence of one-character strings.  Syntax nodes     *)
(* live in a heap (a sequence of records); a node pointer is its index,    *)
(* nullptr is 0.  A C++ exception is the status "error", which every       *)
(* operator passes through unchanged.                                      *)
(***************************************************************************)
EXTENDS Integers, Sequences, FiniteSets, TLC

----------------------------------------------------------------------------
(* Bounds of the model *)

\* longest word sequence enumerated over the general alphabet
MaxWords == 3
\* largest number of case clauses under one arrow of a generated switch
MaxCases == 2
\* number of variables named by one declaration
MaxVars == 3
\* number of arguments of one call
MaxArgs == 2
\* number of characters of a source made of whitespace only
MaxBlanks == 2
\* number of lexemes of a source given to the tokenizer alone
MaxLexWords == 3
\* number of times the folding pass is applied to one tree
MaxFolds == 2
\* width in bits of the modelled std::uint64_t (values are kept modulo 2^UIntBits)
UIntBits == 12
\* width in bits of the modelled int
IntBits == 8

----------------------------------------------------------------------------
(* Characters and character classes of the tokenizer *)

nullptr == 0

\* the value of a std::size_t member that no constructor initialises
Uninit == -1

OperatorChars == {"+", "-", "*", "/", "%", ".", ":", "=", "<", ">", "|", "&", "^"}

Digits == {"0", "1", "2", "3", "4", "5", "6", "7", "8", "9"}

Letters ==
    {"a", "b", "c", "d", "e", "f", "g", "h", "i", "j", "k", "l", "m",
     "n", "o", "p", "q", "r", "s", "t", "u", "v", "w", "x", "y", "z",
     "A", "B", "C", "D", "E", "F", "G", "H", "I", "J", "K", "L", "M",
     "N", "O", "P", "Q", "R", "S", "T", "U", "V", "W", "X", "Y", "Z"}

is_operator(c) == c \in OperatorChars

is_not_str(c) == c # "\""

is_digit(c) == c \in Digits

is_numeric(c) == is_digit(c) \/ c = "."

is_ident_start(c) == c \in Letters \/ c = "_" \/ c = "$"

is_ident(c) == is_ident_start(c) \/ is_digit(c)

is_whitespace(c) == c \in {" ", "\n", "\t", "\r"}

is_grammar(c) == c \in {"(", ")", "{", "}", "[", "]", ",", ";"}

KeywordSwitch == <<"s", "w", "i", "t", "c", "h">>
KeywordCase == <<"c", "a", "s", "e">>
KeywordWhen == <<"w", "h", "e", "n">>
KeywordIf == <<"i", "f">>
KeywordElse == <<"e", "l", "s", "e">>
KeywordThen == <<"t", "h", "e", "n">>
KeywordDeclare == <<"l", "e", "t">>
KeywordImport == <<"o", "p", "e", "n">>
KeywordReturn == <<"r", "e", "t", "u", "r", "n">>
KeywordFunction == <<"f", "u", "n", "c">>
KeywordNull == <<"n", "u", "l", "l">>
KeywordThis == <<"t", "h", "i", "s">>
KeywordRef == <<"r", "e", "f">>
KeywordConst == <<"c", "o", "n", "s", "t">>

Keywords ==
    {KeywordSwitch, KeywordCase, KeywordWhen, KeywordIf, KeywordElse, KeywordThen,
     KeywordDeclare, KeywordImport, KeywordRef, KeywordReturn, KeywordFunction}

Operators ==
    {<<"+">>, <<"-">>, <<"*">>, <<"/">>, <<"%">>,
     <<"<", "<">>, <<">", ">">>, <<"&">>, <<"^">>, <<"|">>,
     <<".">>, <<"=">>, <<":", "=">>, <<"-", ">">>, <<".", ".", ".">>,
     <<">">>, <<"<">>, <<">", "=">>, <<"<", "=">>, <<"=", "=">>, <<"!", "=">>,
     <<"&", "&">>, <<"|", "|">>}

is_from(group, text) == text \in group

RECURSIVE strcount(_, _)
strcount(str, c) ==
    IF str = <<>> THEN 0
    ELSE (IF Head(str) = c THEN 1 ELSE 0) + strcount(Tail(str), c)

----------------------------------------------------------------------------
(* Tokens *)

Token(type, text, start, lineno) ==
    [type |-> type, text |-> text, start |-> start, lineno |-> lineno]

\* Token(TokenType): text is empty; start and lineno are left uninitialised
TokenOf(type) == Token(type, <<>>, Uninit, Uninit)

\* Token::operator bool
TokenBool(t) == t.type \notin {"Eof", "None"}

----------------------------------------------------------------------------
(* Lexer: code is the source, current a 0-based byte offset *)

LexerFeed(code) == [code |-> code, lineno |-> 1, current |-> 0]

is_valid(lexer) == lexer.current < Len(lexer.code)

lex_char(lexer) == lexer.code[lexer.current + 1]

\* the offset at which read_until stops: the first offset at or after the
\* cursor that is past the end or whose character fails the check
read_until(lexer, check(_)) ==
    CHOOSE e \in lexer.current .. Len(lexer.code) :
        /\ \A k \in lexer.current .. (e - 1) : check(lexer.code[k + 1])
        /\ (e = Len(lexer.code) \/ ~check(lexer.code[e + 1]))

token_str(lexer, start, end) == SubSeq(lexer.code, start + 1, end)

\* a tokenizer step: the lexer after it, the token returned, and the message
\* of the error thrown (or ""); with an error, token holds the text and the
\* position that ParserError::from is given
LexResult(lexer, token, err) == [lexer |-> lexer, token |-> token, err |-> err]

parse_string(lexer) ==
    LET l1 == [lexer EXCEPT !.current = @ + 1]
        start == l1.current
        end == read_until(l1, is_not_str)
    IN LexResult([l1 EXCEPT !.current = end + 1],
                 Token("String", token_str(l1, start, end), start, l1.lineno), "")

parse_ident(lexer) ==
    LET start == lexer.current
        end == read_until(lexer, is_ident)
        text == token_str(lexer, start, end)
        type == IF is_from(Keywords, text) THEN "Keyword" ELSE "Ident"
    IN LexResult([lexer EXCEPT !.current = end],
                 Token(type, text, start, lexer.lineno), "")

\* parse_number without the count of the dots
parse_number_unchecked(lexer) ==
    LET start == lexer.current
        end == read_until(lexer, is_numeric)
    IN LexResult([lexer EXCEPT !.current = end],
                 Token("Number", token_str(lexer, start, end), start, lexer.lineno), "")

parse_number(lexer) ==
    LET start == lexer.current
        end == read_until(lexer, is_numeric)
        text == token_str(lexer, start, end)
    IN IF strcount(text, ".") > 1
       THEN LexResult([lexer EXCEPT !.current = end],
                      Token("None", text, start, lexer.lineno), "Invalid float literal")
       ELSE LexResult([lexer EXCEPT !.current = end],
                      Token("Number", text, start, lexer.lineno), "")

parse_operator(lexer) ==
    LET start == lexer.current
        end == read_until(lexer, is_operator)
        text == token_str(lexer, start, end)
        type == IF text = <<"-", ">">> THEN "Arrow" ELSE "Operator"
    IN IF ~is_from(Operators, text)
       THEN LexResult([lexer EXCEPT !.current = end],
                      Token("None", text, start, lexer.lineno), "Invalid operator")
       ELSE LexResult([lexer EXCEPT !.current = end],
                      Token(type, text, start, lexer.lineno), "")

parse_grammar(lexer) ==
    LET start == lexer.current
        c == lex_char(lexer)
        type == CASE c = "(" -> "LParen"
                  [] c = ")" -> "RParen"
                  [] c = "{" -> "LCurly"
                  [] c = "}" -> "RCurly"
                  [] c = "[" -> "LBracket"
                  [] c = "]" -> "RBracket"
                  [] c = "," -> "Comma"
                  [] c = ";" -> "Semicolon"
                  [] OTHER -> "None"
    IN LexResult([lexer EXCEPT !.current = start + 1],
                 Token(type, token_str(lexer, start, start + 1), start, lexer.lineno), "")

\* Lexer::next without its whitespace loop
skip_nothing(lexer) == lexer

\* the whitespace loop of Lexer::next
RECURSIVE skip_whitespace(_)
skip_whitespace(lexer) ==
    IF is_valid(lexer) /\ is_whitespace(lex_char(lexer))
    THEN skip_whitespace([lexer EXCEPT
             !.current = @ + 1,
             !.lineno = IF lex_char(lexer) = "\n" THEN @ + 1 ELSE @])
    ELSE lexer

LexerNext(lexer) ==
    LET l1 == skip_whitespace(lexer)
    IN IF ~is_valid(l1) THEN LexResult(l1, TokenOf("Eof"), "")
       ELSE IF lex_char(l1) = "\"" THEN parse_string(l1)
       ELSE IF is_digit(lex_char(l1)) THEN parse_number(l1)
       ELSE IF is_operator(lex_char(l1)) THEN parse_operator(l1)
       ELSE IF is_ident_start(lex_char(l1)) THEN parse_ident(l1)
       ELSE IF is_grammar(lex_char(l1)) THEN parse_grammar(l1)
       ELSE LexResult(l1, Token("None", <<lex_char(l1)>>, l1.current, l1.lineno),
                      "Invalid char")

----------------------------------------------------------------------------
(* Syntax nodes: one record shape per class of ast.hh *)

NewConst(token, const_type) ==
    [type |-> "EConst", token |-> token, const_type |-> const_type]

NewConstInt(token, value) ==
    [type |-> "EConst", token |-> token, const_type |-> "EConstInt",
     value |-> value % (2 ^ UIntBits)]

NewConstFloat(token, value) ==
    [type |-> "EConst", token |-> token, const_type |-> "EConstFloat", value |-> value]

NewConstString(token, value) ==
    [type |-> "EConst", token |-> token, const_type |-> "EConstString", value |-> value]

NewVar(token, flags, name) ==
    [type |-> "EConst", token |-> token, const_type |-> "EConstIdent",
     flags |-> flags, name |-> name]

NewUnop(token, value) == [type |-> "EUnop", token |-> token, value |-> value]

NewBinop(token, left, right) ==
    [type |-> "EBinop", token |-> token, left |-> left, right |-> right]

NewReturn(token, value) == [type |-> "EReturn", token |-> token, value |-> value]

NewCall(token, name) ==
    [type |-> "ECall", token |-> token, name |-> name, args |-> <<>>]

NewBlock(token) == [type |-> "EBlock", token |-> token, body |-> <<>>]

NewSwitch(token, value) ==
    [type |-> "ESwitch", token |-> token, value |-> value, cases |-> <<>>]

NewCaseCondition(token, value, condition) ==
    [type |-> "ECaseCond", token |-> token, value |-> value,
     condition |-> condition, is_direct |-> TRUE]

NewCase(token, body, condition) ==
    [type |-> "ECase", token |-> token, body |-> body, condition |-> condition]

NewFunction(token, name) ==
    [type |-> "EFunction", token |-> token, body |-> nullptr, name |-> name,
     args |-> <<>>]

NewAssign(token, value) ==
    [type |-> "EAssign", token |-> token, value |-> value, vars |-> <<>>]

NewIf(token, x, y, z) ==
    [type |-> "EIf", token |-> token, body |-> x, else_body |-> y, condition |-> z]

\* std::stoull of a run of digits
RECURSIVE stoull(_)
stoull(text) ==
    IF text = <<>> THEN 0
    ELSE 10 * stoull(SubSeq(text, 1, Len(text) - 1))
         + (CHOOSE d \in 0 .. 9 : ToString(d) = text[Len(text)])

----------------------------------------------------------------------------
(* Parser state.  lexer, peeks, current are the members of class Parser;   *)
(* heap holds the nodes created so far and freed how often each was        *)
(* deleted; st is "ok", "error" (a ParserError is propagating), "ub"       *)
(* (undefined behaviour was executed), "abort" (the process was killed) or *)
(* "diverge" (a loop came back to the state it started from); ret and res  *)
(* hold the token / node pointer returned by the last call; follows        *)
(* records which of "=" and "..." were found after an operand.             *)

Ok(p) == p.st = "ok"

\* sequencing: K runs on the state x unless an exception is propagating
Bind(x, K(_)) == IF ~Ok(x) THEN x ELSE K(x)

Throw(p, msg, token) ==
    [p EXCEPT !.st = "error", !.msg = msg,
              !.errpos = [start |-> token.start, lineno |-> token.lineno]]

Undefined(p, msg) == [p EXCEPT !.st = "ub", !.msg = msg]

\* operator new: the node is appended, res points to it
Alloc(p, node) ==
    IF ~Ok(p) THEN p
    ELSE [p EXCEPT !.heap = Append(@, node), !.freed = Append(@, 0),
                   !.res = Len(p.heap) + 1]

\* list.insert(list.begin(), e) for the vector member named field of node owner
PushFront(p, owner, field, e) ==
    IF ~Ok(p) THEN p ELSE [p EXCEPT !.heap[owner][field] = <<e>> \o @]

\* list.push_back(e) for the vector member named field of node owner
PushBack(p, owner, field, e) ==
    IF ~Ok(p) THEN p ELSE [p EXCEPT !.heap[owner][field] = Append(@, e)]

\* return e
Return(p, e) == IF ~Ok(p) THEN p ELSE [p EXCEPT !.res = e]

\* the parser after lexer.next() gave r
Lexed(p, r) ==
    IF r.err # ""
    THEN Throw([p EXCEPT !.lexer = r.lexer], r.err, r.token)
    ELSE [p EXCEPT !.lexer = r.lexer, !.ret = r.token]

ParserNext(p) ==
    IF ~Ok(p) THEN p
    ELSE IF p.peeks # <<>>
    THEN [p EXCEPT !.ret = Head(p.peeks), !.peeks = Tail(p.peeks)]
    ELSE Lexed(p, LexerNext(p.lexer))

\* Parser::peek without peeks.push(token)
ParserPeekDropping(p) == ParserNext(p)

ParserPeek(p) ==
    Bind(ParserNext(p), LAMBDA a : [a EXCEPT !.peeks = Append(@, a.ret)])

consume_error(p, type, str, maybe, has_type) ==
    IF maybe THEN [p EXCEPT !.ret = TokenOf("None")]
    ELSE Throw(p, "Expected", p.current)

\* Parser::consume(TokenType, const std::string&, bool maybe, bool has_type)
consume(p, type, str, maybe, has_type) ==
    IF ~Ok(p) THEN p
    ELSE IF Len(str) > 0 /\ p.current.text # str
    THEN consume_error(p, type, str, maybe, has_type)
    ELSE IF has_type /\ p.current.type # type
    THEN consume_error(p, type, str, maybe, has_type)
    ELSE Bind(ParserNext(p), LAMBDA a : [a EXCEPT !.current = a.ret, !.ret = p.current])

\* Parser::consume(bool maybe)
consume_any(p, maybe) ==
    IF ~Ok(p) THEN p ELSE consume(p, p.current.type, <<>>, maybe, TRUE)

\* Parser::consume(TokenType, bool maybe)
consume_type(p, type, maybe) == consume(p, type, <<>>, maybe, TRUE)

\* Parser::consume(const std::string&, bool maybe)
consume_str(p, str, maybe) == consume(p, "None", str, maybe, FALSE)

\* the result of the last consume, used as a condition
Consumed(p) == Ok(p) /\ TokenBool(p.ret)

----------------------------------------------------------------------------
(* Operator associativity and precedence *)

op_unary(op) == op = <<"-">> \/ op = <<"&">>

\* an op_assoc that takes every operator for left-associative
op_assoc_left(op) == "OpLeft"

op_assoc(op) == IF op = <<"=">> \/ op = <<":", "=">> THEN "OpRight" ELSE "OpLeft"

comparators == {<<"=", "=">>, <<"!", "=">>, <<">">>, <<"<">>, <<">", "=">>, <<"<", "=">>}

op_prec(op) ==
    IF op = <<"=">> \/ op = <<":", "=">> THEN 0
    ELSE IF op = <<"|", "|">> THEN 1
    ELSE IF op = <<"&", "&">> THEN 2
    ELSE IF op = <<"|">> THEN 3
    ELSE IF op = <<"^">> THEN 4
    ELSE IF op = <<"&">> THEN 5
    ELSE IF op = <<"!", "=">> \/ op = <<"=", "=">> THEN 6
    ELSE IF op \in comparators THEN 7
    ELSE IF op = <<"+">> \/ op = <<"-">> THEN 8
    ELSE IF op = <<"*">> \/ op = <<"/">> \/ op = <<"%">> THEN 9
    ELSE IF op = <<".">> THEN 10
    ELSE -1


----------------------------------------------------------------------------
(* Expression parsing.  The functions of parser.cc call one another        *)
(* through Call, which dispatches on the function's name.                  *)

RECURSIVE expects_end(_, _)
expects_end(heap, expr) ==
    IF expr = nullptr THEN FALSE
    ELSE CASE heap[expr].type \in {"ESwitch", "EBlock"} -> FALSE
           [] heap[expr].type = "EIf" -> expects_end(heap, heap[expr].body)
           [] heap[expr].type = "EBinop" -> expects_end(heap, heap[expr].right)
           [] heap[expr].type = "EFunction" -> expects_end(heap, heap[expr].body)
           [] OTHER -> TRUE

\* #define skip_newlines while (p.consume(Newline, true))
RECURSIVE skip_newlines(_)
skip_newlines(p) ==
    Bind(consume_type(p, "Newline", TRUE),
         LAMBDA a : IF Consumed(a) THEN skip_newlines(a) ELSE a)

consume_end(p, expr) ==
    IF ~Ok(p) THEN p
    ELSE IF expects_end(p.heap, expr)
    THEN Bind(consume_type(p, "Newline", TRUE), LAMBDA a :
            skip_newlines(IF Consumed(a) THEN a ELSE consume_type(a, "Semicolon", FALSE)))
    ELSE skip_newlines(p)

\* the members of class Parser and the nodes: two parser states that agree on
\* them continue in the same way
Members(p) == <<p.lexer, p.peeks, p.current, p.heap>>

\* remember that "=" or "..." was found right after an operand
Follows(p, lhs) ==
    IF /\ lhs # nullptr
       /\ p.current.type = "Operator"
       /\ p.current.text \in {<<"=">>, <<".", ".", ".">>}
    THEN [p EXCEPT !.follows = @ \cup {p.current.text}]
    ELSE p

RECURSIVE Call(_, _, _, _)

\* one iteration of the while (true) of parse_block
block_loop(p, block) ==
    Bind(consume_type(p, "Eof", TRUE), LAMBDA a :
    IF Consumed(a) THEN a ELSE
    Bind(consume_type(a, "RCurly", TRUE), LAMBDA b :
    IF Consumed(b) THEN b ELSE
    Bind(Call("parse_expr", b, 0, 0), LAMBDA c :
    Bind(consume_type(IF c.res # nullptr THEN PushBack(c, block, "body", c.res) ELSE c,
                      "RCurly", TRUE), LAMBDA e :
    IF Consumed(e) THEN e ELSE
    Bind(consume_type(e, "Eof", TRUE), LAMBDA f :
    IF f.ret.type = "Eof" THEN f ELSE
    Bind(consume_end(f, c.res), LAMBDA g :
    IF Members(g) = Members(p) THEN [g EXCEPT !.st = "diverge"]
    ELSE Call("block_loop", g, block, 0)))))))

parse_block(p) ==
    Bind(Alloc(p, NewBlock(p.current)), LAMBDA a :
    Return(Call("block_loop", consume_type(a, "LCurly", TRUE), a.res, 0), a.res))

parse_expr(p) ==
    Bind(skip_newlines(p), LAMBDA a :
    IF a.current.type = "LCurly" THEN Call("parse_block", a, 0, 0)
    ELSE IF a.current.type = "Keyword" /\ a.current.text = KeywordDeclare
    THEN Call("parse_assign", a, 0, 0)
    ELSE IF a.current.type = "Keyword" /\ a.current.text = KeywordFunction
    THEN Call("parse_func", a, TRUE, 0)
    ELSE IF a.current.type = "Keyword" /\ a.current.text = KeywordIf
    THEN Call("parse_if", a, 0, 0)
    ELSE IF a.current.type = "Keyword" /\ a.current.text = KeywordSwitch
    THEN Call("parse_switch", a, 0, 0)
    ELSE IF a.current.type = "Keyword" /\ a.current.text = KeywordReturn
    THEN Call("parse_return", a, 0, 0)
    ELSE Call("parse_statement", a, 0, 0))

\* new Return(p.consume(), parse_statement(p)): the two arguments are
\* evaluated in the order the compiler picks
parse_return(p) ==
    Bind(consume(p, "Keyword", KeywordReturn, FALSE, TRUE), LAMBDA a :
    IF a.argsLTR
    THEN Bind(consume_any(a, FALSE), LAMBDA l1 :
         Bind(Call("parse_statement", l1, 0, 0), LAMBDA l2 :
         Alloc(l2, NewReturn(l1.ret, l2.res))))
    ELSE Bind(Call("parse_statement", a, 0, 0), LAMBDA r1 :
         Bind(consume_any(r1, FALSE), LAMBDA r2 :
         Alloc(r2, NewReturn(r2.ret, r1.res)))))

\* the precedence parse_statement recurses with after the operator token
NextPrecedence(token) ==
    IF op_assoc(token.text) = "OpLeft"
    THEN op_prec(token.text) + 1 ELSE op_prec(token.text)

\* the while loop of parse_statement, entered with the operand lhs
statement_loop(p, lhs, precedence) ==
    IF p.current.type = "Operator" /\ op_prec(p.current.text) >= precedence
    THEN Bind(consume_any(Follows(p, lhs), FALSE), LAMBDA a :
         IF a.ret.text = <<"=">>
         THEN Throw(a, "'=' only allowed in variable declaration", a.ret)
         ELSE IF a.ret.text = <<".", ".", ".">>
         THEN Throw(a, "Illegal varargs '...' operator", a.ret)
         ELSE Bind(Call("parse_statement", skip_newlines(a), NextPrecedence(a.ret), 0),
                   LAMBDA b :
              Bind(Alloc(b, NewBinop(a.ret, lhs, b.res)), LAMBDA c :
              Call("statement_loop", c, c.res, precedence))))
    ELSE Return(Follows(p, lhs), lhs)

parse_statement(p, precedence) ==
    Bind(Call("parse_positional", p, 0, 0), LAMBDA a :
    Call("statement_loop", a, a.res, precedence))

parse_positional(p) ==
    IF op_unary(p.current.text)
    THEN Bind(consume_any(p, FALSE), LAMBDA a :
         Bind(Call("parse_statement", a, op_prec(a.ret.text), 0), LAMBDA b :
         Alloc(b, NewUnop(a.ret, b.res))))
    ELSE CASE p.current.type = "Ident" ->
                Bind(ParserPeek(p), LAMBDA a :
                IF a.ret.type = "LParen" THEN Call("parse_call", a, 0, 0)
                ELSE Call("parse_constant", a, 0, 0))
           [] p.current.type \in {"Number", "String"} -> Call("parse_constant", p, 0, 0)
           [] p.current.type = "LParen" ->
                Bind(Call("parse_statement",
                          skip_newlines(consume_type(p, "LParen", FALSE)), 0, 0),
                     LAMBDA b :
                Return(consume_type(skip_newlines(b), "RParen", FALSE), b.res))
           [] p.current.type = "Keyword" ->
                IF p.current.text = KeywordFunction THEN Call("parse_func", p, FALSE, 0)
                ELSE IF p.current.text = KeywordSwitch THEN Call("parse_switch", p, 0, 0)
                ELSE IF p.current.text = KeywordIf THEN Call("parse_if", p, 0, 0)
                ELSE Throw(p, "Unexpected keyword", p.current)
           [] OTHER -> Return(p, nullptr)

\* the node parse_constant creates for token, which p.consume() returned as got
ConstantOf(token, got) ==
    CASE token.type = "String" -> NewConstString(got, token.text)
      [] token.type = "Ident" ->
           IF token.text = KeywordNull THEN NewConst(got, "EConstNull")
           ELSE IF token.text = KeywordThis THEN NewConst(got, "EConstThis")
           ELSE NewVar(got, {}, token.text)
      [] OTHER ->
           IF strcount(token.text, ".") > 0 THEN NewConstFloat(got, token.text)
           ELSE NewConstInt(got, stoull(token.text))

parse_constant(p) ==
    IF p.current.type \in {"String", "Ident", "Number"}
    THEN Bind(consume_any(p, FALSE), LAMBDA a : Alloc(a, ConstantOf(p.current, a.ret)))
    ELSE Return(p, nullptr)

call_loop(p, call) ==
    Bind(consume_type(p, "RParen", TRUE), LAMBDA a :
    IF Consumed(a) THEN a ELSE
    Bind(Call("parse_statement", skip_newlines(a), 0, 0), LAMBDA b :
    Bind(consume_type(skip_newlines(PushBack(b, call, "args", b.res)), "RParen", TRUE),
         LAMBDA d :
    IF Consumed(d) THEN d ELSE
    Bind(consume_type(skip_newlines(d), "Comma", FALSE), LAMBDA e :
    Call("call_loop", e, call, 0)))))

parse_call(p) ==
    Bind(Alloc(p, NewCall(p.current, p.current.text)), LAMBDA a :
    Return(Call("call_loop",
                consume_type(consume_type(a, "Ident", FALSE), "LParen", FALSE), a.res, 0),
           a.res))

\* the flag a consumed optional token sets
FlagIf(cond, flag) == IF cond THEN {flag} ELSE {}

assign_loop(p, assign, flags) ==
    Bind(consume(p, "Operator", <<"=">>, TRUE, TRUE), LAMBDA a :
    IF Consumed(a) THEN a ELSE
    Bind(consume(a, "Operator", <<".", ".", ".">>, TRUE, TRUE), LAMBDA b :
    Bind(consume_type(b, "Ident", FALSE), LAMBDA c :
    Bind(Alloc(c, NewVar(c.ret, flags \cup FlagIf(Consumed(b), "Packed"), c.ret.text)),
         LAMBDA d :
    Bind(consume(PushBack(d, assign, "vars", d.res), "Operator", <<"=">>, TRUE, TRUE),
         LAMBDA f :
    IF Consumed(f) THEN f ELSE
    Bind(consume_type(f, "Comma", FALSE), LAMBDA g :
    Call("assign_loop", g, assign, flags)))))))

\* parse_assign after its loop without the check of vars[0]->flags
AssignValueUnchecked(e, assign) ==
    IF Len(e.heap[assign].vars) = 0
    THEN Throw(e, "No variable name provided", e.heap[assign].token)
    ELSE Bind(Call("parse_statement", e, 0, 0), LAMBDA f :
         [f EXCEPT !.heap[assign].value = f.res, !.res = assign])

\* the checks and the value of parse_assign, after its loop
AssignValue(e, assign) ==
    IF Len(e.heap[assign].vars) = 0
    THEN Throw(e, "No variable name provided", e.heap[assign].token)
    ELSE IF "Packed" \in e.heap[e.heap[assign].vars[1]].flags
    THEN Throw(e, "single variable declaraction does not need to be packed",
               e.heap[assign].token)
    ELSE Bind(Call("parse_statement", e, 0, 0), LAMBDA f :
         [f EXCEPT !.heap[assign].value = f.res, !.res = assign])

parse_assign(p) ==
    Bind(consume(p, "Keyword", KeywordDeclare, FALSE, TRUE), LAMBDA a :
    Bind(Alloc(a, NewAssign(a.ret, nullptr)), LAMBDA b :
    Bind(consume(b, "Keyword", KeywordRef, TRUE, TRUE), LAMBDA c :
    Bind(consume(c, "Keyword", KeywordConst, TRUE, TRUE), LAMBDA d :
    Bind(Call("assign_loop", d, b.res,
              FlagIf(Consumed(c), "Ref") \cup FlagIf(Consumed(d), "Const")),
         LAMBDA e : AssignValue(e, b.res))))))

func_loop(p, func, has_paren) ==
    Bind(consume_type(p, IF has_paren THEN "RParen" ELSE "Arrow", TRUE), LAMBDA a :
    IF Consumed(a) THEN a ELSE
    Bind(consume(a, "Keyword", KeywordRef, TRUE, TRUE), LAMBDA f1 :
    Bind(consume(f1, "Keyword", KeywordConst, TRUE, TRUE), LAMBDA f2 :
    Bind(consume(f2, "Keyword", KeywordRef, TRUE, TRUE), LAMBDA f3 :
    Bind(consume(f3, "Keyword", KeywordConst, TRUE, TRUE), LAMBDA f4 :
    Bind(consume(f4, "Operator", <<".", ".", ".">>, TRUE, TRUE), LAMBDA f5 :
    Bind(consume_type(f5, "Ident", FALSE), LAMBDA b :
    Bind(Alloc(b, NewVar(b.ret,
                         FlagIf(Consumed(f1) \/ Consumed(f3), "Ref")
                         \cup FlagIf(Consumed(f2) \/ Consumed(f4), "Const")
                         \cup FlagIf(Consumed(f5), "Packed"),
                         b.ret.text)),
         LAMBDA c :
    Bind(consume_type(PushBack(c, func, "args", c.res),
                      IF has_paren THEN "RParen" ELSE "Arrow", TRUE), LAMBDA e :
    IF Consumed(e) THEN e ELSE
    Bind(consume_type(e, "Comma", FALSE), LAMBDA g :
    Call("func_loop", g, func, has_paren)))))))))))

parse_func(p, has_name) ==
    Bind(consume(p, "Keyword", KeywordFunction, FALSE, TRUE), LAMBDA a :
    Bind(IF has_name THEN consume_type(a, "Ident", FALSE) ELSE a, LAMBDA b :
    Bind(Alloc(b, NewFunction(a.ret, IF has_name THEN b.ret.text ELSE <<>>)), LAMBDA c :
    Bind(consume_type(c, "LParen", TRUE), LAMBDA d :
    Bind(Call("parse_expr",
              consume_type(Call("func_loop", d, c.res, Consumed(d)), "Arrow", TRUE), 0, 0),
         LAMBDA f :
    [f EXCEPT !.heap[c.res].body = f.res, !.res = c.res])))))

\* Token paren after "paren.type = None", which runs when paren is true
ParenAfter(paren) == IF TokenBool(paren) THEN [paren EXCEPT !.type = "None"] ELSE paren

parse_if(p) ==
    Bind(consume(p, "Keyword", KeywordIf, FALSE, TRUE), LAMBDA a :
    Bind(consume_type(a, "LParen", TRUE), LAMBDA b :
    Bind(Call("parse_statement", b, 0, 0), LAMBDA c :
    Bind(IF TokenBool(b.ret) THEN consume_type(c, "RParen", FALSE) ELSE c, LAMBDA d :
    Bind(consume(d, "Keyword", KeywordThen, TRUE, TRUE), LAMBDA e :
    Bind(IF Consumed(e) THEN e
         ELSE consume_type(e, "Arrow", TokenBool(ParenAfter(b.ret))), LAMBDA f :
    Bind(Call("parse_expr", f, 0, 0), LAMBDA g :
    Bind(consume(g, "Keyword", KeywordElse, TRUE, TRUE), LAMBDA h :
    Bind(IF Consumed(h) THEN Call("parse_expr", h, 0, 0) ELSE Return(h, nullptr),
         LAMBDA i :
    Alloc(i, NewIf(a.ret, g.res, i.res, c.res)))))))))))

switch_loop(p, switch_expr, value) ==
    Bind(consume_type(skip_newlines(p), "RCurly", TRUE), LAMBDA a :
    IF Consumed(a) THEN a ELSE
    Bind(Call("parse_case", skip_newlines(a), value, 0), LAMBDA b :
    Bind(consume_type(skip_newlines(PushBack(b, switch_expr, "cases", b.res)),
                      "RCurly", TRUE), LAMBDA d :
    IF Consumed(d) THEN d ELSE Call("switch_loop", d, switch_expr, value))))

parse_switch(p) ==
    Bind(consume(p, "Keyword", KeywordSwitch, FALSE, TRUE), LAMBDA a :
    Bind(Call("parse_statement", a, 0, 0), LAMBDA b :
    Bind(Alloc(b, NewSwitch(a.ret, b.res)), LAMBDA c :
    Return(Call("switch_loop",
                consume_type(consume_type(c, "Arrow", TRUE), "LCurly", FALSE),
                c.res, b.res),
           c.res))))

\* the loop body of parse_case with the operands of || exchanged and the
\* bound value kept
OrConditionSwapped(p, cond, and_cond) ==
    Bind(Alloc(p, [NewBinop(p.heap[and_cond].token, p.heap[and_cond].condition,
                            p.heap[cond].condition)
                   EXCEPT !.token.text = <<"|", "|">>]), LAMBDA c :
    [c EXCEPT !.heap[cond].condition = c.res])

\* cond->condition = new Binop(and_cond->token, cond->condition,
\* and_cond->condition); cond->condition->token.text = "||";
\* cond->value = and_cond->value
OrCondition(p, cond, and_cond) ==
    Bind(Alloc(p, [NewBinop(p.heap[and_cond].token, p.heap[cond].condition,
                            p.heap[and_cond].condition)
                   EXCEPT !.token.text = <<"|", "|">>]), LAMBDA c :
    [c EXCEPT !.heap[cond].condition = c.res,
              !.heap[cond].value = c.heap[and_cond].value])

\* the while (p.consume(Keyword, KeywordCase, true)) of parse_case
case_loop(p, cond, value) ==
    Bind(consume(p, "Keyword", KeywordCase, TRUE, TRUE), LAMBDA a :
    IF ~Consumed(a) THEN a ELSE
    Bind(Call("parse_case_condition", a, value, 0), LAMBDA b :
    Call("case_loop", skip_newlines(OrCondition(b, cond, b.res)), cond, value)))

parse_case(p, value) ==
    Bind(consume(p, "Keyword", KeywordCase, FALSE, TRUE), LAMBDA a :
    Bind(Call("parse_case_condition", a, value, 0), LAMBDA b :
    Bind(Call("parse_expr",
              consume_type(skip_newlines(Call("case_loop", skip_newlines(b), b.res, value)),
                           "Arrow", FALSE), 0, 0),
         LAMBDA e :
    Alloc(e, NewCase(a.ret, e.res, b.res)))))

\* new CaseCondition(set_value->token, set_value, cond); result->is_direct = is_direct
CaseConditionOf(p, set_value, cond, is_direct) ==
    IF ~Ok(p) THEN p
    ELSE IF set_value = nullptr
    THEN Undefined(p, "set_value->token with set_value == nullptr")
    ELSE Alloc(p, [NewCaseCondition(p.heap[set_value].token, set_value, cond)
                   EXCEPT !.is_direct = is_direct])

parse_case_condition(p, value) ==
    Bind(Call("parse_statement", p, 0, 0), LAMBDA a :
    Bind(consume(a, "Keyword", KeywordWhen, TRUE, TRUE), LAMBDA b :
    IF Consumed(b)
    THEN Bind(Call("parse_statement", b, 0, 0), LAMBDA w :
         CaseConditionOf(w, a.res, w.res, FALSE))
    ELSE IF value = nullptr
    THEN Undefined(b, "value->token with value == nullptr")
    ELSE Bind(Alloc(b, [NewBinop(b.heap[value].token, value, a.res)
                        EXCEPT !.token.text = <<"=", "=">>]), LAMBDA e :
         CaseConditionOf(e, a.res, e.res, TRUE))))

\* a call of the function fn of parser.cc
Call(fn, p, x, y) ==
    IF ~Ok(p) THEN p
    ELSE CASE fn = "parse_block" -> parse_block(p)
           [] fn = "block_loop" -> block_loop(p, x)
           [] fn = "parse_expr" -> parse_expr(p)
           [] fn = "parse_return" -> parse_return(p)
           [] fn = "parse_statement" -> parse_statement(p, x)
           [] fn = "statement_loop" -> statement_loop(p, x, y)
           [] fn = "parse_positional" -> parse_positional(p)
           [] fn = "parse_constant" -> parse_constant(p)
           [] fn = "parse_call" -> parse_call(p)
           [] fn = "call_loop" -> call_loop(p, x)
           [] fn = "parse_assign" -> parse_assign(p)
           [] fn = "assign_loop" -> assign_loop(p, x, y)
           [] fn = "parse_func" -> parse_func(p, x)
           [] fn = "func_loop" -> func_loop(p, x, y)
           [] fn = "parse_if" -> parse_if(p)
           [] fn = "parse_switch" -> parse_switch(p)
           [] fn = "switch_loop" -> switch_loop(p, x, y)
           [] fn = "parse_case" -> parse_case(p, x)
           [] fn = "case_loop" -> case_loop(p, x, y)
           [] fn = "parse_case_condition" -> parse_case_condition(p, x)

\* Parser() {}: no token read yet, no node created
ParserNew ==
    [lexer |-> LexerFeed(<<>>), peeks |-> <<>>, current |-> TokenOf("None"),
     heap |-> <<>>, freed |-> <<>>, st |-> "ok", msg |-> "",
     errpos |-> [start |-> 0, lineno |-> 0], ret |-> TokenOf("None"),
     res |-> nullptr, follows |-> {}, argsLTR |-> TRUE]

\* the end of Parser::parse, after the first parse_expr gave expr
ParseRest(p, expr) ==
    IF p.current.type # "Eof" /\ expr # nullptr
    THEN Bind(Call("parse_block", consume_end(p, expr), 0, 0), LAMBDA b :
         [b EXCEPT !.heap[b.res].body = <<expr>> \o @])
    ELSE p

\* Parser::parse; argsLTR tells whether the build evaluates the arguments of a
\* call from left to right
ParserParse(p, code, argsLTR) ==
    Bind(ParserNext([p EXCEPT !.lexer = LexerFeed(code), !.argsLTR = argsLTR]), LAMBDA n :
    Bind(Call("parse_expr", [n EXCEPT !.current = n.ret], 0, 0), LAMBDA e :
    ParseRest(e, e.res)))

----------------------------------------------------------------------------
(* Destructors of ast.hh.  delete e runs the destructor of e's class and   *)
(* then releases e: freed[e] counts how often e was released.              *)

RECURSIVE Delete(_, _), free_list(_, _, _)

\* Expr::free(&slot) for the pointer member named field of node e
ExprFree(p, e, field) ==
    [Delete(p, p.heap[e][field]) EXCEPT !.heap[e][field] = nullptr]

\* Expr::free_list(list) for the vector member named field of node e
free_list(p, e, field) ==
    IF p.heap[e][field] = <<>> THEN p
    ELSE free_list([Delete(p, Head(p.heap[e][field])) EXCEPT !.heap[e][field] = Tail(@)],
                   e, field)

\* delete op with its operands still attached
DeleteAttached(p, op) == Delete(p, op)

\* op->left = op->right = nullptr; delete op
DeleteDetached(p, op) ==
    Delete([p EXCEPT !.heap[op].left = nullptr, !.heap[op].right = nullptr], op)

\* the body of ~CaseCondition after Expr::free(&value)
DestroyCondition(p, e) ==
    IF /\ p.heap[e].is_direct
       /\ p.heap[e].condition # nullptr
       /\ p.heap[p.heap[e].condition].type = "EBinop"
    THEN DeleteDetached(p, p.heap[e].condition)
    ELSE p

\* ~CaseCondition
DestroyCaseCondition(p, e) == DestroyCondition(ExprFree(p, e, "value"), e)

\* the destructor of the class of node e
Destructor(p, e) ==
    CASE p.heap[e].type = "EUnop" -> ExprFree(p, e, "value")
      [] p.heap[e].type = "EBinop" -> ExprFree(ExprFree(p, e, "left"), e, "right")
      [] p.heap[e].type = "EReturn" -> ExprFree(p, e, "value")
      [] p.heap[e].type = "ECall" -> free_list(p, e, "args")
      [] p.heap[e].type = "EBlock" -> free_list(p, e, "body")
      [] p.heap[e].type = "ESwitch" -> free_list(ExprFree(p, e, "value"), e, "cases")
      [] p.heap[e].type = "ECaseCond" -> DestroyCaseCondition(p, e)
      [] p.heap[e].type = "ECase" -> ExprFree(ExprFree(p, e, "body"), e, "condition")
      [] p.heap[e].type = "EFunction" -> free_list(ExprFree(p, e, "body"), e, "args")
      [] p.heap[e].type = "EAssign" -> free_list(ExprFree(p, e, "value"), e, "vars")
      [] p.heap[e].type = "EIf" ->
           ExprFree(ExprFree(ExprFree(p, e, "body"), e, "else_body"), e, "condition")
      [] OTHER -> p

\* delete e; deleting a node that was deleted before is undefined
Delete(p, e) ==
    IF e = nullptr THEN p
    ELSE IF p.freed[e] > 0
    THEN [Undefined(p, "delete of a deleted node") EXCEPT !.freed[e] = @ + 1]
    ELSE [Destructor(p, e) EXCEPT !.freed[e] = @ + 1]
----------------------------------------------------------------------------
(* Constant folding *)

\* the value of a C++ int: the low IntBits bits, read as two's complement
ToInt(x) ==
    LET m == x % (2 ^ IntBits)
    IN IF m >= 2 ^ (IntBits - 1) THEN m - 2 ^ IntBits ELSE m

\* bitwise operators on naturals
RECURSIVE BitOp(_, _, _)
BitOp(f, a, b) ==
    IF a = 0 /\ b = 0 THEN 0
    ELSE f[a % 2, b % 2] + 2 * BitOp(f, a \div 2, b \div 2)

BitAnd == [x \in 0 .. 1, y \in 0 .. 1 |-> IF x = 1 /\ y = 1 THEN 1 ELSE 0]
BitXor == [x \in 0 .. 1, y \in 0 .. 1 |-> IF x # y THEN 1 ELSE 0]
BitOr == [x \in 0 .. 1, y \in 0 .. 1 |-> IF x = 1 \/ y = 1 THEN 1 ELSE 0]

\* what a combinator does with its operator: "value" (it returns v), "error"
\* (p.error is called), "abort" (integer division by zero kills the
\* process) or "ub" (a shift by the width or more)
Combined(kind, v) == [kind |-> kind, v |-> v]

\* const_cross_operators with the line of "+" pasted for "*"
const_cross_pasted(op, left, right, otherwise) ==
    IF op = <<"+">> THEN Combined("value", left + right)
    ELSE IF op = <<"-">> THEN Combined("value", left - right)
    ELSE IF op = <<"*">> THEN Combined("value", left + right)
    ELSE IF op = <<"/">>
    THEN (IF right = 0 THEN Combined("abort", 0) ELSE Combined("value", left \div right))
    ELSE otherwise

const_cross_operators(op, left, right, otherwise) ==
    IF op = <<"+">> THEN Combined("value", left + right)
    ELSE IF op = <<"-">> THEN Combined("value", left - right)
    ELSE IF op = <<"*">> THEN Combined("value", left * right)
    ELSE IF op = <<"/">>
    THEN (IF right = 0 THEN Combined("abort", 0) ELSE Combined("value", left \div right))
    ELSE otherwise

const_int_operators(op, left, right, otherwise) ==
    IF op = <<"&">> THEN Combined("value", BitOp(BitAnd, left, right))
    ELSE IF op = <<"^">> THEN Combined("value", BitOp(BitXor, left, right))
    ELSE IF op = <<"|">> THEN Combined("value", BitOp(BitOr, left, right))
    ELSE IF op = <<"%">>
    THEN (IF right = 0 THEN Combined("abort", 0) ELSE Combined("value", left % right))
    ELSE IF op = <<">", ">">>
    THEN (IF right >= UIntBits THEN Combined("ub", 0)
          ELSE Combined("value", left \div (2 ^ right)))
    ELSE IF op = <<"<", "<">>
    THEN (IF right >= UIntBits THEN Combined("ub", 0)
          ELSE Combined("value", (left * (2 ^ right)) % (2 ^ UIntBits)))
    ELSE otherwise

\* binop_combinator(const_combine, const_cross_operators)
const_combine(op, left, right) ==
    const_cross_operators(op, left, right, Combined("error", left))

\* binop_combinator(const_combine_int, const_cross_operators; const_int_operators)
const_combine_int(op, left, right) ==
    const_cross_operators(op, left, right,
        const_int_operators(op, left, right, Combined("error", left)))

\* new ConstInt(token, combinator result) or the combinator's failure
Resolved(p, token, c, node) ==
    CASE c.kind = "value" -> Alloc(p, node)
      [] c.kind = "error" -> Throw(p, "Invalid operator on constant expressions", token)
      [] c.kind = "abort" -> [p EXCEPT !.st = "abort", !.msg = "integer division by zero"]
      [] OTHER -> Undefined(p, "shift by the width of the type or more")

\* new ConstInt(lit, c) for the combinator result c
ResolvedInt(p, token, c, lit) == Resolved(p, token, c, NewConstInt(lit, c.v))

\* new ConstInt(token, c) for a combinator result c of type int
ResolvedFromInt(p, token, c) == Resolved(p, token, c, NewConstInt(token, ToInt(c.v)))

\* the literal built from two floating point operands, or from one: double
\* arithmetic is not interpreted, the value of the new literal is unspecified
FloatCombined(op) ==
    IF op \in {<<"+">>, <<"-">>, <<"*">>, <<"/">>}
    THEN Combined("value", CHOOSE v \in 0 .. 2 ^ UIntBits - 1 : TRUE)
    ELSE Combined("error", 0)

\* binop_resolve on the nodes l and r that left and right point to
ResolveBinop(p, token, l, r) ==
    IF l.const_type = "EConstIdent" \/ r.const_type = "EConstIdent"
    THEN Return(p, nullptr)
    ELSE IF l.const_type = "EConstInt" /\ r.const_type = "EConstInt"
    THEN ResolvedInt(p, token, const_combine_int(token.text, l.value, r.value), l.token)
    ELSE IF /\ l.const_type \in {"EConstInt", "EConstFloat"}
            /\ r.const_type \in {"EConstInt", "EConstFloat"}
    THEN ResolvedInt(p, token, FloatCombined(token.text), l.token)
    ELSE IF /\ l.const_type = "EConstString"
            /\ r.const_type = "EConstString"
            /\ token.text = <<"+">>
    THEN Alloc(p, NewConstString(l.token, l.value \o r.value))
    ELSE Return(p, nullptr)

binop_resolve(p, token, left, right) ==
    IF ~Ok(p) THEN p ELSE ResolveBinop(p, token, p.heap[left], p.heap[right])

unary_resolve(p, token, value) ==
    IF ~Ok(p) THEN p
    ELSE IF p.heap[value].const_type = "EConstInt"
    THEN ResolvedFromInt(p, token, const_combine(token.text, 0, p.heap[value].value))
    ELSE IF p.heap[value].const_type = "EConstFloat"
    THEN Resolved(p, token, FloatCombined(token.text), NewConstFloat(token, <<>>))
    ELSE Throw(p, "Invalid unary operator on constant expression", token)

expr_is_const(heap, e) == e # nullptr /\ heap[e].type = "EConst"

RECURSIVE constant_fold(_, _), const_fold_list(_, _, _, _)

\* expr->field = constant_fold(p, expr->field)
FoldField(p, expr, field) ==
    IF ~Ok(p) THEN p
    ELSE Bind(constant_fold(p, p.heap[expr][field]),
              LAMBDA a : [a EXCEPT !.heap[expr][field] = a.res])

\* #define const_fold_list, from index i on
const_fold_list(p, expr, field, i) ==
    IF ~Ok(p) \/ i > Len(p.heap[expr][field]) THEN p
    ELSE Bind(constant_fold(p, p.heap[expr][field][i]), LAMBDA a :
         const_fold_list([a EXCEPT !.heap[expr][field][i] = a.res], expr, field, i + 1))

\* if (combined) { delete op; return combined; } return op;
Folded(p, op) ==
    IF ~Ok(p) THEN p
    ELSE IF p.res # nullptr THEN Return(Delete(p, op), p.res)
    ELSE Return(p, op)

\* case EUnop of constant_fold, after op->value was folded
FoldUnop(p, op) ==
    IF ~Ok(p) THEN p
    ELSE IF expr_is_const(p.heap, p.heap[op].value)
    THEN Folded(unary_resolve(p, p.heap[op].token, p.heap[op].value), op)
    ELSE Return(p, op)

\* case EBinop of constant_fold, after op->left and op->right were folded
FoldBinop(p, op) ==
    IF ~Ok(p) THEN p
    ELSE IF /\ expr_is_const(p.heap, p.heap[op].left)
            /\ expr_is_const(p.heap, p.heap[op].right)
    THEN Folded(binop_resolve(p, p.heap[op].token, p.heap[op].left, p.heap[op].right), op)
    ELSE Return(p, op)

\* the switch (expr->type) of constant_fold
FoldCase(p, expr, type) ==
    CASE type = "EUnop" -> FoldUnop(FoldField(p, expr, "value"), expr)
      [] type = "EBinop" ->
           FoldBinop(FoldField(FoldField(p, expr, "left"), expr, "right"), expr)
      [] type = "EReturn" -> Return(FoldField(p, expr, "value"), expr)
      [] type = "EFunction" -> Return(FoldField(p, expr, "body"), expr)
      [] type = "EAssign" -> Return(FoldField(p, expr, "value"), expr)
      [] type = "ECall" -> Return(const_fold_list(p, expr, "args", 1), expr)
      [] type = "EBlock" -> Return(const_fold_list(p, expr, "body", 1), expr)
      [] type = "ESwitch" -> Return(const_fold_list(p, expr, "cases", 1), expr)
      [] type = "ECaseCond" ->
           Return(FoldField(FoldField(p, expr, "value"), expr, "condition"), expr)
      [] type = "ECase" ->
           Return(FoldField(FoldField(p, expr, "body"), expr, "condition"), expr)
      [] OTHER -> Return(p, expr)

\* a node that was deleted is read: the outcome is undefined
constant_fold(p, expr) ==
    IF ~Ok(p) THEN p
    ELSE IF expr = nullptr THEN Return(p, expr)
    ELSE IF p.freed[expr] > 0 THEN Undefined(p, "use of a deleted node")
    ELSE FoldCase(p, expr, p.heap[expr].type)

\* Compiler::optimize
optimize(p, tree) == constant_fold(p, tree)

----------------------------------------------------------------------------
(* Source texts.  A source is a sequence of words separated by one space.  *)

RECURSIVE Src(_)
Src(words) ==
    IF words = <<>> THEN <<>>
    ELSE IF Len(words) = 1 THEN words[1]
    ELSE words[1] \o <<" ">> \o Src(Tail(words))

\* all sequences of at most n words of the set W
RECURSIVE WordSeqs(_, _)
WordSeqs(W, n) ==
    IF n = 0 THEN {<<>>}
    ELSE LET shorter == WordSeqs(W, n - 1)
         IN shorter \cup {Append(ws, w) : ws \in {x \in shorter : Len(x) = n - 1}, w \in W}

StrA == <<"\"", "a", "\"">>
StrB == <<"\"", "b", "\"">>
ArrowWord == <<"-", ">">>

\* every operator text the tokenizer knows, and "!=" of the precedence table
OpWords == Operators

\* operators of the precedence table (op_prec >= 0)
TableOps == {op \in Operators : op_prec(op) >= 0}

LeftOps == {op \in TableOps : op_assoc(op) = "OpLeft"}

\* general alphabet
GenWords ==
    {<<"1">>, <<"x">>, <<"+">>, <<"-">>, <<"=">>, <<".", ".", ".">>,
     <<"(">>, <<")">>, <<"{">>, <<"}">>, <<"]">>, <<",">>, <<";">>}

GenSources == {Src(ws) : ws \in WordSeqs(GenWords, MaxWords)}

\* a op1 b op2 c
First == {<<"x">>, <<"2">>}
Second == {<<"y">>, <<"3">>}
Third == {<<"z">>, <<"4">>, <<"5">>}

Chain(a, op1, b, op2, c) == Src(<<a, op1, b, op2, c>>)

ChainSources ==
    {Chain(a, op1, b, op2, c) :
        a \in First, op1 \in OpWords, b \in Second, op2 \in OpWords, c \in Third}

\* a op b and op a
Operands == {<<"2">>, <<"0">>, <<"x">>, StrA, StrB}

BinSources == {Src(<<a, op, b>>) : a \in Operands, op \in OpWords, b \in Operands}

UnSources == {Src(<<op, a>>) : op \in {<<"-">>, <<"&">>}, a \in Operands}

\* switch s -> { case v1 ... case vn -> 1 }, with one arm or two
Scrutinees == {<<"x">>, <<"5">>, <<"x", " ", "+", " ", "1">>}
Bound == {<<"5">>, <<"6">>, <<"y">>}

RECURSIVE Clauses(_)
Clauses(vs) ==
    IF vs = <<>> THEN <<>> ELSE <<KeywordCase, Head(vs)>> \o Clauses(Tail(vs))

RECURSIVE Arms(_)
Arms(vss) ==
    IF vss = <<>> THEN <<>>
    ELSE Clauses(Head(vss)) \o <<ArrowWord, <<"1">>>> \o Arms(Tail(vss))

SwitchOf(s, vss) ==
    Src(<<KeywordSwitch, s, ArrowWord, <<"{">>>> \o Arms(vss) \o <<<<"}">>>>)

CaseLists == WordSeqs(Bound, MaxCases) \ {<<>>}

SwitchSources ==
    {SwitchOf(s, <<vs>>) : s \in Scrutinees, vs \in CaseLists}
    \cup {SwitchOf(s, <<vs, ws>>) : s \in Scrutinees, vs \in CaseLists, ws \in CaseLists}

\* switch x -> { case v when g -> 1 }
GuardedSwitch(v, g) ==
    Src(<<KeywordSwitch, <<"x">>, ArrowWord, <<"{">>, KeywordCase, v, KeywordWhen, g,
          ArrowWord, <<"1">>, <<"}">>>>)

GuardSources == {GuardedSwitch(v, g) : v \in Bound, g \in Second}

\* let [...]x, [...]y, [...]z = 5: packs[i] tells whether name i has the prefix
VarNames == <<"x", "y", "z", "u", "w">>

RECURSIVE DeclNames(_, _)
DeclNames(packs, i) ==
    IF i > Len(packs) THEN <<>>
    ELSE (IF i > 1 THEN <<<<",">>>> ELSE <<>>)
         \o (IF packs[i] THEN <<<<".", ".", ".">>>> ELSE <<>>)
         \o <<<<VarNames[i]>>>> \o DeclNames(packs, i + 1)

DeclOf(packs) == Src(<<KeywordDeclare>> \o DeclNames(packs, 1) \o <<<<"=">>, <<"5">>>>)

PackLists == WordSeqs(BOOLEAN, MaxVars)

DeclSources == {DeclOf(packs) : packs \in PackLists}

\* hi(e1, ..., en) with or without a terminating ;
CallArgs == {<<"5">>, <<"6">>, <<"x">>}

RECURSIVE ArgList(_)
ArgList(args) ==
    IF args = <<>> THEN <<>>
    ELSE IF Len(args) = 1 THEN args[1]
    ELSE args[1] \o <<",", " ">> \o ArgList(Tail(args))

CallOf(args, end) == <<"h", "i", "(">> \o ArgList(args) \o <<")">> \o end

ArgLists == WordSeqs(CallArgs, MaxArgs)

CallSources == {CallOf(args, end) : args \in ArgLists, end \in {<<>>, <<";">>}}

\* switch s -> { case v -> 1 } with a scrutinee or a bound value that folds
OnePlusTwo == <<"1", " ", "+", " ", "2">>

FoldedSwitchSources ==
    {SwitchOf(s, <<<<v>>>>) : s \in {<<"x">>, OnePlusTwo}, v \in {<<"y">>, OnePlusTwo}}

\* return e, alone or followed by ; 2
Returned == {<<<<"1">>>>, <<<<"x">>>>, <<<<"x">>, <<"+">>, <<"1">>>>}

ReturnOf(e, rest) == Src(<<KeywordReturn>> \o e \o rest)

ReturnRests == {<<>>, <<<<";">>, <<"2">>>>}

ReturnSources == {ReturnOf(e, rest) : e \in Returned, rest \in ReturnRests}

\* switches with a clause that is no case, a case without a bound value, or
\* no scrutinee
ClauseWithoutCase ==
    Src(<<KeywordSwitch, <<"x">>, ArrowWord, <<"{">>, <<"5">>, ArrowWord, <<"1", "0">>, <<"}">>>>)

CaseWithoutValue ==
    Src(<<KeywordSwitch, <<"x">>, ArrowWord, <<"{">>, KeywordCase, ArrowWord, <<"1", "0">>,
          <<"}">>>>)

SwitchWithoutScrutinee ==
    {Src(<<KeywordSwitch>> \o arrow \o <<<<"{">>, KeywordCase, v, ArrowWord, <<"1", "0">>,
                                           <<"}">>>>) :
        arrow \in {<<>>, <<ArrowWord>>}, v \in Bound}

MalformedSwitchSources ==
    {ClauseWithoutCase, CaseWithoutValue} \cup SwitchWithoutScrutinee

\* if x 1, if (x) 1, with then or -> before the body or neither, with or
\* without else 2
IfSeparators == {<<>>, <<KeywordThen>>, <<ArrowWord>>}

IfOf(paren, sep, else) ==
    Src(<<KeywordIf>>
        \o (IF paren THEN <<<<"(">>, <<"x">>, <<")">>>> ELSE <<<<"x">>>>)
        \o sep \o <<<<"1">>>>
        \o (IF else THEN <<KeywordElse, <<"2">>>> ELSE <<>>))

IfSources ==
    {IfOf(paren, sep, else) : paren \in BOOLEAN, sep \in IfSeparators, else \in BOOLEAN}

\* two statements with only a newline between them, at top level or in braces
NewlineSeparated(a, b, braces) ==
    (IF braces THEN <<"{", " ">> ELSE <<>>) \o a \o <<"\n">> \o b
    \o (IF braces THEN <<" ", "}">> ELSE <<>>)

NewlineSources ==
    {NewlineSeparated(a, b, braces) : a \in First, b \in Second, braces \in BOOLEAN}

\* { S sep 2 }: a statement S, nothing or ; or a newline, and the statement 2;
\* ends tells whether S expects an end
BlockBody == <<<<"{">>, <<"1">>, <<"}">>>>

FuncHead == <<KeywordFunction, <<"f">>, <<"(">>, <<")">>, ArrowWord>>

Statements ==
    {[words |-> <<<<"1">>>>, ends |-> TRUE],
     [words |-> <<<<"x">>, <<"+">>, <<"1">>>>, ends |-> TRUE],
     [words |-> BlockBody, ends |-> FALSE],
     [words |-> <<KeywordSwitch, <<"x">>, ArrowWord, <<"{">>, KeywordCase, <<"5">>,
                  ArrowWord, <<"1">>, <<"}">>>>, ends |-> FALSE],
     [words |-> <<KeywordIf, <<"x">>, ArrowWord>> \o BlockBody, ends |-> FALSE],
     [words |-> <<KeywordIf, <<"x">>, ArrowWord, <<"1">>>>, ends |-> TRUE],
     [words |-> FuncHead \o BlockBody, ends |-> FALSE],
     [words |-> FuncHead \o <<<<"1">>>>, ends |-> TRUE],
     [words |-> <<<<"x">>, <<"+">>, KeywordIf, <<"y">>, ArrowWord>> \o BlockBody,
      ends |-> FALSE]}

Separators == {<<>>, <<<<";">>>>, <<<<"\n">>>>}

Sequenced(words, sep) == Src(<<<<"{">>>> \o words \o sep \o <<<<"2">>, <<"}">>>>)

SequenceSources == {Sequenced(s.words, sep) : s \in Statements, sep \in Separators}

\* calls with an argument missing
MissingArgSources ==
    {<<"h", "i", "(", ",", ")">>, <<"h", "i", "(", "5", ",", ",", "6", ")">>}

\* an if with 1 + 2 as condition, as body or as else branch
FoldedIfSources ==
    {Src(<<KeywordIf, OnePlusTwo, ArrowWord, <<"3">>>>),
     Src(<<KeywordIf, <<"x">>, ArrowWord, OnePlusTwo>>),
     Src(<<KeywordIf, <<"x">>, ArrowWord, <<"3">>, KeywordElse, OnePlusTwo>>)}

\* switch 1 + 2 -> { case 5 when y -> 1 }
GuardedFoldSources ==
    {Src(<<KeywordSwitch, OnePlusTwo, ArrowWord, <<"{">>, KeywordCase, <<"5">>, KeywordWhen,
           <<"y">>, ArrowWord, <<"1">>, <<"}">>>>)}

\* the empty source and the sources of spaces, tabs, carriage returns, newlines
BlankSources == WordSeqs({" ", "\t", "\r", "\n"}, MaxBlanks)

Sources ==
    GenSources \cup ChainSources \cup BinSources \cup UnSources \cup SwitchSources
    \cup GuardSources \cup DeclSources \cup CallSources \cup BlankSources
    \cup FoldedSwitchSources \cup ReturnSources \cup MalformedSwitchSources
    \cup IfSources \cup NewlineSources \cup SequenceSources \cup MissingArgSources
    \cup FoldedIfSources \cup GuardedFoldSources

----------------------------------------------------------------------------
(* The program: a source is parsed, the tree is folded (Compiler::compile) *)
(* and deleted (main, Compiler::compile).                                  *)

\* returned is the history of the tokens that calls of Parser::next by a
\* client of the parser have returned
VARIABLES code, pc, p, tree, folds, returned

vars == <<code, pc, p, tree, folds, returned>>

Init ==
    /\ code \in Sources
    /\ pc = "start"
    /\ p = ParserNew
    /\ tree = nullptr
    /\ folds = 0
    /\ returned = <<>>

\* the values a std::size_t member that was never written may be read as
Indeterminate == {0, 1, 2 ^ UIntBits - 1}

\* the outcomes of a call that ended as q: an error raised at a token whose
\* start and lineno were never written reports whatever these members hold
Outcomes(q) ==
    IF q.st = "error" /\ (q.errpos.start = Uninit \/ q.errpos.lineno = Uninit)
    THEN {[q EXCEPT !.errpos = [start |-> IF @.start = Uninit THEN s ELSE @.start,
                                lineno |-> IF @.lineno = Uninit THEN l ELSE @.lineno]] :
             s \in Indeterminate, l \in Indeterminate}
    ELSE {q}

\* ExprPtr tree = parser.parse(code); a call that loops for ever does not
\* return: the program stays in it
Parse ==
    /\ pc = "start"
    /\ \E argsLTR \in BOOLEAN : p' \in Outcomes(ParserParse(p, code, argsLTR))
    /\ tree' = IF Ok(p') THEN p'.res ELSE nullptr
    /\ pc' = IF p'.st = "diverge" THEN "parsing" ELSE "parsed"
    /\ UNCHANGED <<code, folds, returned>>

\* tree = optimize(tree)
Fold ==
    /\ pc \in {"parsed", "folded"}
    /\ Ok(p)
    /\ folds < MaxFolds
    /\ p' = optimize(p, tree)
    /\ tree' = IF Ok(p') THEN p'.res ELSE tree
    /\ pc' = "folded"
    /\ folds' = folds + 1
    /\ UNCHANGED <<code, returned>>

\* delete tree
Destroy ==
    /\ pc \in {"parsed", "folded"}
    /\ Ok(p)
    /\ p' = Delete(p, tree)
    /\ pc' = "deleted"
    /\ UNCHANGED <<code, tree, folds, returned>>

Next == Parse \/ Fold \/ Destroy

Spec == Init /\ [][Next]_vars

----------------------------------------------------------------------------
(* The tokenizer alone: a client feeds a source to the lexer and asks for   *)
(* token after token, until end-of-input or an error.                       *)

LexWords ==
    {<<"1">>, <<"1", ".", "2">>, <<".">>, <<"x">>, <<"+">>, <<"#">>, <<"!">>,
     <<" ">>, <<"\n">>, <<"(">>, StrA}

\* the words of ws one after the other, nothing between them
RECURSIVE Concat(_)
Concat(ws) == IF ws = <<>> THEN <<>> ELSE Head(ws) \o Concat(Tail(ws))

\* x op y for the operators of the precedence table, "." apart
PrecedenceOps == TableOps \ {<<".">>}

Between(op) == Src(<<<<"x">>, op, <<"y">>>>)

OperatorSources == {Between(op) : op \in PrecedenceOps}

\* a string literal that holds a newline, and a token after it
StrNewline == <<"\"", "a", "\n", "b", "\"">>

MultilineSources ==
    {pre \o StrNewline \o post :
        pre \in {<<>>, <<"\n">>}, post \in {<<"x">>, <<"\n", "x">>, <<" ", "+", "\n", "1">>}}

LexSources ==
    {Concat(ws) : ws \in WordSeqs(LexWords, MaxLexWords)} \cup OperatorSources
    \cup MultilineSources

LexInit ==
    /\ code \in LexSources
    /\ pc = "start"
    /\ p = ParserNew
    /\ tree = nullptr
    /\ folds = 0
    /\ returned = <<>>

\* lexer.feed(filename, code)
Feed ==
    /\ pc = "start"
    /\ p' = [p EXCEPT !.lexer = LexerFeed(code)]
    /\ pc' = "fed"
    /\ UNCHANGED <<code, tree, folds, returned>>

\* lexer.next(), as long as no error was thrown and end-of-input not returned
NextToken ==
    /\ pc = "fed"
    /\ Ok(p)
    /\ p.ret.type # "Eof"
    /\ p' = Lexed(p, LexerNext(p.lexer))
    /\ UNCHANGED <<code, pc, tree, folds, returned>>

LexStep == Feed \/ NextToken

LexSpec == LexInit /\ [][LexStep]_vars

----------------------------------------------------------------------------
(* The lookahead of the parser: a client calls Parser::next and            *)
(* Parser::peek in any order on a fed parser, until next has returned      *)
(* end-of-input or an error was thrown.                                    *)

\* the last call of Parser::next returned end-of-input
AtEnd == returned # <<>> /\ returned[Len(returned)].type = "Eof"

\* token = parser.next()
CallNext ==
    /\ pc \in {"fed", "peeked"}
    /\ Ok(p)
    /\ ~AtEnd
    /\ p' = ParserNext(p)
    /\ returned' = IF Ok(p') THEN Append(returned, p'.ret) ELSE returned
    /\ pc' = "fed"
    /\ UNCHANGED <<code, tree, folds>>

\* token = parser.peek()
CallPeek ==
    /\ pc \in {"fed", "peeked"}
    /\ Ok(p)
    /\ ~AtEnd
    /\ p' = ParserPeek(p)
    /\ pc' = IF Ok(p') THEN "peeked" ELSE "fed"
    /\ UNCHANGED <<code, tree, folds, returned>>

PeekStep == Feed \/ CallNext \/ CallPeek

PeekSpec == LexInit /\ [][PeekStep]_vars

----------------------------------------------------------------------------
(* Properties *)

\* C1: whenever Parser::parse has returned normally, with a tree or with
\* nothing, every token of the input up to end-of-input was consumed: the
\* current token is end-of-input and no peeked token is waiting.
C1_AllTokensConsumed ==
    (pc = "parsed" /\ Ok(p)) => (p.current.type = "Eof" /\ p.peeks = <<>>)

\* C2: a call of Parser::parse terminates: the program is never inside a call
\* whose parse_block loop has come back to the parser state an iteration
\* started from.
C2_ParseTerminates == pc # "parsing"

\* node e is the operand written w: an identifier or a number literal
IsOperand(h, e, w) ==
    /\ e # nullptr
    /\ h[e].type = "EConst"
    /\ IF is_digit(w[1])
       THEN h[e].const_type = "EConstInt" /\ h[e].value = stoull(w)
       ELSE h[e].const_type = "EConstIdent" /\ h[e].name = w

\* node e is a binary node of operator op
IsBinop(h, e, op) == e # nullptr /\ h[e].type = "EBinop" /\ h[e].token.text = op

\* node e is (a op1 b) op2 c
GroupsLeft(h, e, a, op1, b, op2, c) ==
    /\ IsBinop(h, e, op2)
    /\ IsBinop(h, h[e].left, op1)
    /\ IsOperand(h, h[h[e].left].left, a)
    /\ IsOperand(h, h[h[e].left].right, b)
    /\ IsOperand(h, h[e].right, c)

\* node e is a op1 (b op2 c)
GroupsRight(h, e, a, op1, b, op2, c) ==
    /\ IsBinop(h, e, op1)
    /\ IsOperand(h, h[e].left, a)
    /\ IsBinop(h, h[e].right, op2)
    /\ IsOperand(h, h[h[e].right].left, b)
    /\ IsOperand(h, h[h[e].right].right, c)

\* the chains a op1 b op2 c over the operators ops, each with its source text
Chains(ops) ==
    {<<Chain(a, op1, b, op2, c), a, op1, b, op2, c>> :
        a \in First, op1 \in ops, b \in Second, op2 \in ops, c \in Third}

\* the tree is the grouping of chain t that the precedence table asks for
Grouped(t) ==
    /\ Ok(p)
    /\ IF op_prec(t[3]) >= op_prec(t[5])
       THEN GroupsLeft(p.heap, tree, t[2], t[3], t[4], t[5], t[6])
       ELSE GroupsRight(p.heap, tree, t[2], t[3], t[4], t[5], t[6])

LeftChains == Chains(LeftOps)

\* C3: for operands a, b, c and left-associative operators op1, op2 of the
\* precedence table, parsing "a op1 b op2 c" returns (a op1 b) op2 c when
\* prec(op1) >= prec(op2) and a op1 (b op2 c) when prec(op1) < prec(op2).
C3_Grouping ==
    pc = "parsed" => \A t \in LeftChains : code = t[1] => Grouped(t)

\* the operators of the precedence table that the tokenizer can deliver
LexableOps == {op \in LeftOps : \A i \in 1 .. Len(op) : is_operator(op[i])}

LexableChains == Chains(LexableOps)

\* the grouping of C3 holds for the operators that the tokenizer delivers
GroupingOfLexable ==
    pc = "parsed" => \A t \in LexableChains : code = t[1] => Grouped(t)

AssignOps == {<<"=">>, <<":", "=">>}

AssignChains == Chains(AssignOps)

\* C4 as stated: parsing "x = y = 5" succeeds and returns the node x = (y = 5).
C4_AssignGroupsRight ==
    (pc = "parsed" /\ code = Chain(<<"x">>, <<"=">>, <<"y">>, <<"=">>, <<"5">>)) =>
        /\ Ok(p)
        /\ GroupsRight(p.heap, tree, <<"x">>, <<"=">>, <<"y">>, <<"=">>, <<"5">>)

\* C4, amended: parsing "a := b := c" succeeds and returns the node
\* a := (b := c), the assignment family groups to the right; a chain with "="
\* in it, such as "x = y = 5", raises "'=' only allowed in variable
\* declaration" and returns no tree.
C4_DeclareGroupsRight ==
    pc = "parsed" =>
        \A t \in AssignChains : code = t[1] =>
            IF t[3] = <<":", "=">> /\ t[5] = <<":", "=">>
            THEN Ok(p) /\ GroupsRight(p.heap, tree, t[2], t[3], t[4], t[5], t[6])
            ELSE /\ p.st = "error"
                 /\ p.msg = "'=' only allowed in variable declaration"
                 /\ tree = nullptr

\* "x := y := 5" was parsed to a tree
C4_Witness ==
    /\ pc = "parsed"
    /\ /\ code = Chain(<<"x">>, <<":", "=">>, <<"y">>, <<":", "=">>, <<"5">>)
          /\ IsBinop(p.heap, tree, <<":", "=">>)
          /\ IsBinop(p.heap, p.heap[tree].right, <<":", "=">>)

\* C5: whenever the token after an operand in parse_statement is "=" or "...",
\* parse_statement raises the hard error of that operator.
C5_HardErrors ==
    pc # "start" =>
        /\ <<"=">> \in p.follows =>
              p.st = "error" /\ p.msg = "'=' only allowed in variable declaration"
        /\ <<".", ".", ".">> \in p.follows =>
              p.st = "error" /\ p.msg = "Illegal varargs '...' operator"

\* the varargs check of parse_statement is never reached
VarargsErrorNeverRaised == p.msg # "Illegal varargs '...' operator"

\* the trees at a in heap h1 and at b in heap h2 are structurally equal
RECURSIVE SameTree(_, _, _, _)
SameList(h1, l1, h2, l2) ==
    /\ Len(l1) = Len(l2)
    /\ \A i \in 1 .. Len(l1) : SameTree(h1, l1[i], h2, l2[i])

SameChildren(h1, x, h2, y) ==
    CASE x.type = "EConst" -> x.const_type = y.const_type /\ x = y
      [] x.type \in {"EUnop", "EReturn"} -> SameTree(h1, x.value, h2, y.value)
      [] x.type = "EBinop" ->
           SameTree(h1, x.left, h2, y.left) /\ SameTree(h1, x.right, h2, y.right)
      [] x.type = "ECall" -> x.name = y.name /\ SameList(h1, x.args, h2, y.args)
      [] x.type = "EBlock" -> SameList(h1, x.body, h2, y.body)
      [] x.type = "ESwitch" ->
           SameTree(h1, x.value, h2, y.value) /\ SameList(h1, x.cases, h2, y.cases)
      [] x.type = "ECaseCond" ->
           /\ x.is_direct = y.is_direct
           /\ SameTree(h1, x.value, h2, y.value)
           /\ SameTree(h1, x.condition, h2, y.condition)
      [] x.type = "ECase" ->
           SameTree(h1, x.body, h2, y.body)
           /\ SameTree(h1, x.condition, h2, y.condition)
      [] x.type = "EFunction" ->
           /\ x.name = y.name
           /\ SameTree(h1, x.body, h2, y.body)
           /\ SameList(h1, x.args, h2, y.args)
      [] x.type = "EAssign" ->
           SameTree(h1, x.value, h2, y.value) /\ SameList(h1, x.vars, h2, y.vars)
      [] x.type = "EIf" ->
           /\ SameTree(h1, x.body, h2, y.body)
           /\ SameTree(h1, x.else_body, h2, y.else_body)
           /\ SameTree(h1, x.condition, h2, y.condition)

SameTree(h1, a, h2, b) ==
    IF a = nullptr \/ b = nullptr THEN a = b
    ELSE /\ h1[a].type = h2[b].type
         /\ h1[a].token.text = h2[b].token.text
         /\ SameChildren(h1, h1[a], h2, h2[b])

TwoPlusThreeTimesFour == Chain(<<"2">>, <<"+">>, <<"3">>, <<"*">>, <<"4">>)

\* C6: folding is idempotent: a fold of a tree that a fold returned returns
\* normally with a structurally equal tree; and the fold of the parse of
\* "2 + 3 * 4" returns the single integer literal 14.
C6_FoldIdempotent ==
    [][(pc' = "folded" /\ folds' # folds) =>
          /\ code = TwoPlusThreeTimesFour =>
                Ok(p') /\ IsOperand(p'.heap, tree', <<"1", "4">>)
          /\ pc = "folded" => Ok(p') /\ SameTree(p.heap, tree, p'.heap, tree')]_vars

\* "2 + 3 * 4" was folded twice, to the literal 14
C6_Witness ==
    /\ code = TwoPlusThreeTimesFour
    /\ pc = "folded"
    /\ folds = 2
    /\ IsOperand(p.heap, tree, <<"1", "4">>)

\* node e is an identifier
IsIdent(h, e) == e # nullptr /\ h[e].type = "EConst" /\ h[e].const_type = "EConstIdent"

\* node e is a unary or binary operator node with an identifier as an operand
HasIdentOperand(h, e) ==
    \/ h[e].type = "EUnop" /\ IsIdent(h, h[e].value)
    \/ h[e].type = "EBinop" /\ (IsIdent(h, h[e].left) \/ IsIdent(h, h[e].right))

\* C7: identifiers are never folded: a fold raises no error on a unary or
\* binary operator node that has an identifier as an operand, and leaves the
\* node and its operands in place.
C7_IdentifiersNotFolded ==
    [][(pc' = "folded" /\ folds' # folds) =>
          \A e \in 1 .. Len(p.heap) :
              (p.freed[e] = 0 /\ HasIdentOperand(p.heap, e)) =>
                  /\ Ok(p')
                  /\ p'.heap[e] = p.heap[e]
                  /\ p'.freed[e] = 0]_vars

\* the comparison and logical operators
CompareOps ==
    {<<"=", "=">>, <<"<">>, <<">">>, <<"<", "=">>, <<">", "=">>, <<"&", "&">>, <<"|", "|">>}

IntWords == {<<"2">>, <<"0">>}

CompareSources == {Src(<<a, op, b>>) : a \in IntWords, op \in CompareOps, b \in IntWords}

SwitchFiveCaseFive == SwitchOf(<<"5">>, <<<<<<"5">>>>>>)

\* C8: fold does not fail on a comparison or logical operator with two integer
\* literals as operands, the "==" node of the implicit case of
\* "switch 5 -> { case 5 -> 1 }" included: it returns the tree it was given.
C8_UnresolvedLeftUnfolded ==
    [][(/\ pc' = "folded"
        /\ folds' # folds
        /\ code \in CompareSources \cup {SwitchFiveCaseFive}) =>
          Ok(p') /\ tree' = tree /\ p'.heap = p.heap]_vars

StringWords == {StrA, StrB}

\* C9: for two string literals as operands, fold replaces a "+" node by the
\* literal of the concatenation, left then right, and raises an error for
\* every other binary operator.
C9_StringOperators ==
    pc = "folded" =>
        \A a \in StringWords, op \in TableOps, b \in StringWords :
            code = Src(<<a, op, b>>) =>
                IF op = <<"+">>
                THEN /\ Ok(p)
                     /\ tree # nullptr
                     /\ p.heap[tree].type = "EConst"
                     /\ p.heap[tree].const_type = "EConstString"
                     /\ p.heap[tree].value = <<a[2], b[2]>>
                ELSE p.st = "error"

\* node e is a switch with a scrutinee, all of whose cases are implicit
IsImplicitSwitch(h, e) ==
    /\ e # nullptr
    /\ h[e].type = "ESwitch"
    /\ h[e].value # nullptr
    /\ \A i \in 1 .. Len(h[e].cases) : h[h[h[e].cases[i]].condition].is_direct

\* C10: destroying a parsed switch whose cases are implicit, with one or several
\* case clauses per arrow, frees the scrutinee node exactly once.
C10_ScrutineeFreedOnce ==
    [][(pc = "parsed" /\ pc' = "deleted" /\ IsImplicitSwitch(p.heap, tree)) =>
          p'.freed[p.heap[tree].value] = 1]_vars

\* a switch of two arms, the first with two case clauses, was destroyed
C10_Witness ==
    /\ code = SwitchOf(<<"x">>, <<<<<<"5">>, <<"6">>>>, <<<<"y">>>>>>)
    /\ pc = "deleted"
    /\ folds = 0
    /\ p.freed[1] = 1

\* C11: once the tree returned by Parser::parse was destroyed, without a fold
\* in between, every node allocated during the parse was freed exactly once;
\* this holds for the guard of a "case v when g" clause and for the nodes of
\* several case clauses under one arrow.
C11_EveryNodeFreedOnce ==
    (pc = "deleted" /\ folds = 0 /\ tree # nullptr) =>
        \A e \in 1 .. Len(p.heap) : p.freed[e] = 1

\* the switch sources with their scrutinee and the bound words of their arms
SwitchTable ==
    {[code |-> SwitchOf(s, <<vs>>), arms |-> <<vs>>] : s \in Scrutinees, vs \in CaseLists}
    \cup {[code |-> SwitchOf(s, <<vs, ws>>), arms |-> <<vs, ws>>] :
              s \in Scrutinees, vs \in CaseLists, ws \in CaseLists}

\* node e is the comparison s == w, s being the scrutinee node
IsCompare(h, e, s, w) ==
    IsBinop(h, e, <<"=", "=">>) /\ h[e].left = s /\ IsOperand(h, h[e].right, w)

\* node e is ((s == vs[1]) || (s == vs[2])) || ... (s == vs[n])
RECURSIVE IsOrChain(_, _, _, _)
IsOrChain(h, e, s, vs) ==
    IF Len(vs) = 1 THEN IsCompare(h, e, s, vs[1])
    ELSE /\ IsBinop(h, e, <<"|", "|">>)
         /\ IsOrChain(h, h[e].left, s, SubSeq(vs, 1, Len(vs) - 1))
         /\ IsCompare(h, h[e].right, s, vs[Len(vs)])

\* node c is a case whose condition compares the scrutinee s with vs
IsCaseOf(h, c, s, vs) ==
    /\ h[c].type = "ECase"
    /\ h[c].condition # nullptr
    /\ h[h[c].condition].type = "ECaseCond"
    /\ IsOrChain(h, h[h[c].condition].condition, s, vs)
    /\ IsOperand(h, h[h[c].condition].value, vs[Len(vs)])

\* C12: for switch s -> { case v1 ... case vn -> body } the condition of the
\* case is the left-nested || of s == v1, ..., s == vn in source order (s == v1
\* alone when n = 1), every comparison has the scrutinee node as left operand,
\* the bound value of the case condition is vn, and an identifier vi is
\* compared like any other value.
C12_CaseCondition ==
    (pc = "parsed" /\ code \in SwitchSources) =>
        \A e \in SwitchTable : e.code = code =>
            /\ Ok(p)
            /\ tree # nullptr
            /\ p.heap[tree].type = "ESwitch"
            /\ p.heap[tree].value # nullptr
            /\ Len(p.heap[tree].cases) = Len(e.arms)
            /\ \A i \in 1 .. Len(e.arms) :
                   IsCaseOf(p.heap, p.heap[tree].cases[i], p.heap[tree].value, e.arms[i])

\* a switch whose first arm has the clauses case 5 case y and whose second arm
\* has case 6 was parsed: the first condition is a || node
C12_Witness ==
    /\ code = SwitchOf(<<"x">>, <<<<<<"5">>, <<"y">>>>, <<<<"6">>>>>>)
    /\ pc = "parsed"
    /\ Ok(p)
    /\ IsBinop(p.heap, p.heap[p.heap[p.heap[tree].cases[1]].condition].condition,
               <<"|", "|">>)

\* the declarations with the flags of their names
DeclTable == {[code |-> DeclOf(packs), packs |-> packs] : packs \in PackLists}

\* node e is the variable number i of a declaration, packed or not
IsDeclared(h, e, i, packed) ==
    /\ h[e].type = "EConst"
    /\ h[e].const_type = "EConstIdent"
    /\ h[e].name = <<VarNames[i]>>
    /\ ("Packed" \in h[e].flags) = packed

\* C13: parse_assign raises an error when the declaration names no variable
\* (let = 5) and when its first variable is variadic (let ...x = 5); a
\* declaration whose first name is not variadic is accepted, and a ... prefix
\* on a later name sets the packed flag of that variable only.
C13_Declaration ==
    (pc = "parsed" /\ code \in DeclSources) =>
        \A d \in DeclTable : d.code = code =>
            IF d.packs = <<>> THEN p.st = "error" /\ p.msg = "No variable name provided"
            ELSE IF d.packs[1] THEN p.st = "error"
            ELSE /\ Ok(p)
                 /\ tree # nullptr
                 /\ p.heap[tree].type = "EAssign"
                 /\ Len(p.heap[tree].vars) = Len(d.packs)
                 /\ \A i \in 1 .. Len(d.packs) :
                        IsDeclared(p.heap, p.heap[tree].vars[i], i, d.packs[i])

\* let x, ...y = 5 was parsed: y is packed
C13_Witness ==
    /\ code = DeclOf(<<FALSE, TRUE>>)
    /\ pc = "parsed"
    /\ Ok(p)
    /\ "Packed" \in p.heap[p.heap[tree].vars[2]].flags

\* the calls with their arguments and their terminator
CallTable ==
    {[code |-> CallOf(args, end), args |-> args, end |-> end] :
        args \in ArgLists, end \in {<<>>, <<";">>}}

\* node e is the call hi(args)
IsCallOf(h, e, args) ==
    /\ e # nullptr
    /\ h[e].type = "ECall"
    /\ h[e].name = <<"h", "i">>
    /\ Len(h[e].args) = Len(args)
    /\ \A i \in 1 .. Len(args) : IsOperand(h, h[e].args[i], args[i])

\* C14: Parser::parse of hi(5, 6); returns a call node named hi whose arguments
\* are the literals 5 and 6 in that order; in general the parse of
\* name(e1, ..., en), terminated by ; or not, returns a call node with the n
\* arguments in source order.
C14_CallReturned ==
    (pc = "parsed" /\ code \in CallSources) =>
        \A c \in CallTable : c.code = code => Ok(p) /\ IsCallOf(p.heap, tree, c.args)

\* C14, amended: the parse of name(e1, ..., en) builds a call node with the n
\* arguments in source order; Parser::parse returns that node when the call
\* ends the source, and a block whose only statement is that node when a ;
\* follows the call, as in hi(5, 6);
C14_CallParsed ==
    (pc = "parsed" /\ code \in CallSources) =>
        \A c \in CallTable : c.code = code =>
            /\ Ok(p)
            /\ tree # nullptr
            /\ IF c.end = <<>> THEN IsCallOf(p.heap, tree, c.args)
               ELSE /\ p.heap[tree].type = "EBlock"
                    /\ Len(p.heap[tree].body) = 1
                    /\ IsCallOf(p.heap, p.heap[tree].body[1], c.args)

\* hi(5, 6); was parsed
C14_Witness ==
    /\ code = CallOf(<<<<"5">>, <<"6">>>>, <<";">>)
    /\ pc = "parsed"
    /\ Ok(p)
    /\ p.heap[tree].type = "EBlock"

\* C15: Parser::parse of a source without tokens, the empty string or spaces,
\* tabs, carriage returns and newlines only, returns nothing and raises no error.
C15_BlankReturnsNothing ==
    (pc = "parsed" /\ code \in BlankSources) =>
        (Ok(p) /\ p.res = nullptr /\ tree = nullptr)

\* a space and a newline were parsed
C15_Witness ==
    /\ code = <<" ", "\n">>
    /\ pc = "parsed"
    /\ Ok(p)
    /\ tree = nullptr
    /\ p.lexer.current = 2

\* the offset of the first character at or after offset i that is no whitespace
RECURSIVE SkipBlanks(_, _)
SkipBlanks(c, i) ==
    IF i < Len(c) /\ c[i + 1] \in {" ", "\t", "\r", "\n"} THEN SkipBlanks(c, i + 1) ELSE i

\* the maximal run of digits and dots at offset i
RECURSIVE NumericRun(_, _)
NumericRun(c, i) ==
    IF i < Len(c) /\ (c[i + 1] \in Digits \/ c[i + 1] = ".")
    THEN <<c[i + 1]>> \o NumericRun(c, i + 1)
    ELSE <<>>

Dots(run) == Cardinality({k \in 1 .. Len(run) : run[k] = "."})

\* the characters a token can start with
TokenStarts ==
    {"\""} \cup Digits \cup OperatorChars \cup Letters \cup {"_", "$"}
    \cup {"(", ")", "{", "}", "[", "]", ",", ";"}

\* C16: a call of the tokenizer raises a lexical error and returns no token
\* when the maximal run of digits and dots at the next non-whitespace
\* character starts with a digit and holds two or more dots, and when the next
\* non-whitespace character can start no token.
C16_LexicalErrors ==
    [][(pc = "fed" /\ pc' = "fed" /\ p' # p
        /\ SkipBlanks(code, p.lexer.current) < Len(code)) =>
          /\ (/\ code[SkipBlanks(code, p.lexer.current) + 1] \in Digits
              /\ Dots(NumericRun(code, SkipBlanks(code, p.lexer.current))) >= 2)
             => (p'.st = "error" /\ p'.msg = "Invalid float literal" /\ p'.ret = p.ret)
          /\ (code[SkipBlanks(code, p.lexer.current) + 1] \notin TokenStarts)
             => (p'.st = "error" /\ p'.msg = "Invalid char" /\ p'.ret = p.ret)]_vars

\* the tokenizer has returned ( and raised an error at the run 1.2.
C16_Witness ==
    /\ code = <<"(", "1", ".", "2", ".">>
    /\ pc = "fed"
    /\ p.st = "error"
    /\ p.msg = "Invalid float literal"
    /\ p.ret.type = "LParen"

\* the number of lines of a source
Lines(c) == 1 + strcount(c, "\n")

\* C17: every error raised by the tokenizer or the parser carries the byte
\* offset and the line number of a position in the source, also an error
\* detected when the current token is end-of-input, such as the missing ) of (1.
C17_ErrorHasPosition ==
    (pc = "parsed" /\ p.st = "error") =>
        (p.errpos.start \in 0 .. Len(code) /\ p.errpos.lineno \in 1 .. Lines(code))

\* the slot value e references no deleted node
Live(q, e) == e = nullptr \/ q.freed[e] = 0

\* the == nodes of the condition e of a case condition
RECURSIVE Compares(_, _)
Compares(h, e) ==
    IF e = nullptr \/ h[e].type # "EBinop" THEN {}
    ELSE IF h[e].token.text = <<"|", "|">>
    THEN Compares(h, h[e].left) \cup Compares(h, h[e].right)
    ELSE IF h[e].token.text = <<"=", "=">> THEN {e}
    ELSE {}

\* C18: after fold has returned on a switch tree it has used no deleted node,
\* and the scrutinee slot of the switch, the bound-value slot of each case
\* condition and both operand slots of each synthesized == node reference
\* live nodes, also when the scrutinee or a bound value is foldable.
C18_FoldKeepsSlotsLive ==
    (pc = "folded" /\ p.st # "error" /\ tree # nullptr
     /\ p.heap[tree].type = "ESwitch") =>
        /\ p.st = "ok"
        /\ Live(p, p.heap[tree].value)
        /\ \A i \in 1 .. Len(p.heap[tree].cases) :
              /\ Live(p, p.heap[p.heap[p.heap[tree].cases[i]].condition].value)
              /\ \A e \in Compares(p.heap,
                                   p.heap[p.heap[p.heap[tree].cases[i]].condition].condition) :
                     Live(p, p.heap[e].left) /\ Live(p, p.heap[e].right)

\* C19: when fold replaces a unary or binary operator node by a literal, the
\* new literal node carries the source token of the operator node it replaces,
\* not the token of an operand.
C19_LiteralCarriesOperatorToken ==
    [][(pc = "parsed" /\ pc' = "folded" /\ Ok(p') /\ tree # nullptr
        /\ p.heap[tree].type \in {"EUnop", "EBinop"} /\ tree' # tree) =>
          p'.heap[tree'].token = p.heap[tree].token]_vars

\* the return sources with the words of their expression and what follows it
ReturnTable ==
    {[code |-> ReturnOf(e, rest), e |-> e, rest |-> rest] :
        e \in Returned, rest \in ReturnRests}

\* node v is the parse of the words ws: an operand, or a op b
IsExprOf(h, v, ws) ==
    IF Len(ws) = 1 THEN IsOperand(h, v, ws[1])
    ELSE /\ IsBinop(h, v, ws[2])
         /\ IsOperand(h, h[v].left, ws[1])
         /\ IsOperand(h, h[v].right, ws[3])

\* node e is a return node of the keyword token at offset 0, with value ws
IsReturnOf(h, e, ws) ==
    /\ e # nullptr
    /\ h[e].type = "EReturn"
    /\ h[e].token = Token("Keyword", KeywordReturn, 0, 1)
    /\ IsExprOf(h, h[e].value, ws)

\* C20: "return e" parses to a return node whose token is the return keyword
\* token and whose value is the parse of the whole of e: no token of e is
\* dropped, and no token after e is consumed by parse_return, so that a
\* following "; 2" is parsed as the next statement of the block.
C20_ReturnParsed ==
    (pc = "parsed" /\ code \in ReturnSources) =>
        \A r \in ReturnTable : r.code = code =>
            /\ Ok(p)
            /\ tree # nullptr
            /\ IF r.rest = <<>> THEN IsReturnOf(p.heap, tree, r.e)
               ELSE /\ p.heap[tree].type = "EBlock"
                    /\ Len(p.heap[tree].body) = 2
                    /\ IsReturnOf(p.heap, p.heap[tree].body[1], r.e)
                    /\ IsOperand(p.heap, p.heap[tree].body[2], <<"2">>)

\* C21: a switch clause that does not start with case, a case that no bound
\* value follows, and a switch without scrutinee are each rejected with a parse
\* error: Parser::parse neither returns a tree for them nor reads the token of
\* an absent node.
C21_MalformedSwitchRejected ==
    (pc = "parsed" /\ code \in MalformedSwitchSources) => p.st = "error"

\* the if sources with their shape
IfTable ==
    {[code |-> IfOf(paren, sep, else), paren |-> paren, sep |-> sep, else |-> else] :
        paren \in BOOLEAN, sep \in IfSeparators, else \in BOOLEAN}

\* node e is the if node of condition x and body 1, with else 2 or without
IsIfOf(h, e, else) ==
    /\ e # nullptr
    /\ h[e].type = "EIf"
    /\ IsOperand(h, h[e].condition, <<"x">>)
    /\ IsOperand(h, h[e].body, <<"1">>)
    /\ IF else THEN IsOperand(h, h[e].else_body, <<"2">>) ELSE h[e].else_body = nullptr

\* C22: an if with a parenthesized condition may omit both then and -> before
\* its body: "if (c) body" parses to an if node of condition c and that body;
\* an if with a bare condition requires then or ->; with then or -> both
\* forms parse to the if node.
C22_IfSeparator ==
    (pc = "parsed" /\ code \in IfSources) =>
        \A i \in IfTable : i.code = code =>
            IF i.sep = <<>> /\ ~i.paren THEN p.st = "error"
            ELSE Ok(p) /\ IsIfOf(p.heap, tree, i.else)

\* C22 without its first case: with then or -> before the body, an if with a
\* parenthesized or a bare condition parses to the if node
IfWithSeparatorParsed ==
    (pc = "parsed" /\ code \in IfSources) =>
        \A i \in IfTable : (i.code = code /\ i.sep # <<>>) =>
            Ok(p) /\ IsIfOf(p.heap, tree, i.else)

\* the newline-separated sources with their two statements
NewlineTable ==
    {[code |-> NewlineSeparated(a, b, braces), a |-> a, b |-> b] :
        a \in First, b \in Second, braces \in BOOLEAN}

\* C23: two statements of a block or of the top level that only a newline
\* separates are accepted and parsed as two consecutive statements of the
\* block: the tokenizer hands the newline to the parser as a terminator token.
C23_NewlineTerminates ==
    (pc = "parsed" /\ code \in NewlineSources) =>
        \A n \in NewlineTable : n.code = code =>
            /\ Ok(p)
            /\ tree # nullptr
            /\ p.heap[tree].type = "EBlock"
            /\ Len(p.heap[tree].body) = 2
            /\ IsOperand(p.heap, p.heap[tree].body[1], n.a)
            /\ IsOperand(p.heap, p.heap[tree].body[2], n.b)

\* the tokenizer never returns a token of type Newline
NoNewlineToken == p.ret.type # "Newline" /\ p.current.type # "Newline"

\* the sequence sources with their statement and their separator
SequenceTable ==
    {[code |-> Sequenced(s.words, sep), ends |-> s.ends, sep |-> sep] :
        s \in Statements, sep \in Separators}

\* the tree is a block of a statement that expects an end or not, as ends
\* tells, and of the statement 2
IsSequence(q, e, ends) ==
    /\ Ok(q)
    /\ e # nullptr
    /\ q.heap[e].type = "EBlock"
    /\ Len(q.heap[e].body) = 2
    /\ expects_end(q.heap, q.heap[e].body[1]) = ends
    /\ IsOperand(q.heap, q.heap[e].body[2], <<"2">>)

\* C24: in a block, a statement S that another statement follows must be
\* followed by a newline or ; exactly when S expects an end (S does not when
\* it is a block, a switch, an if or a function whose body does not, or a
\* binary node whose right operand does not): with the terminator the two
\* statements are parsed, without it parse raises an error, and after an S
\* that expects no end the next statement follows directly.
C24_TerminatorRule ==
    (pc = "parsed" /\ code \in SequenceSources) =>
        \A s \in SequenceTable : s.code = code =>
            IF s.ends
            THEN IF s.sep = <<>> THEN p.st = "error" ELSE IsSequence(p, tree, TRUE)
            ELSE s.sep = <<>> => IsSequence(p, tree, FALSE)

\* C24 for the terminator ; alone
SemicolonRule ==
    (pc = "parsed" /\ code \in SequenceSources) =>
        \A s \in SequenceTable : (s.code = code /\ s.sep # <<<<"\n">>>>) =>
            IF s.ends
            THEN IF s.sep = <<>> THEN p.st = "error" ELSE IsSequence(p, tree, TRUE)
            ELSE s.sep = <<>> => IsSequence(p, tree, FALSE)

\* the tokens the tokenizer returns for a source, up to end-of-input or to
\* its first error
RECURSIVE TokensAfter(_)
TokensAfter(r) ==
    IF r.err # "" THEN <<>>
    ELSE IF r.token.type = "Eof" THEN <<r.token>>
    ELSE <<r.token>> \o TokensAfter(LexerNext(r.lexer))

Tokens(c) == TokensAfter(LexerNext(LexerFeed(c)))

IsPrefix(s, t) == Len(s) <= Len(t) /\ s = SubSeq(t, 1, Len(s))

\* C25: for any interleaving of calls of Parser::peek and Parser::next, the
\* tokens returned by next are the tokens of the tokenizer in their order, none
\* lost, duplicated or reordered, and a next that follows a peek returns
\* the token the peek returned.
C25_LookaheadTransparent ==
    [][/\ IsPrefix(returned', Tokens(code))
       /\ (pc = "peeked" /\ pc' = "fed" /\ Ok(p')) => p'.ret = p.ret]_vars

\* next, peek, peek and next were called on x+1: the second next returned the
\* peeked +, and the queue is empty again
C25_Witness ==
    /\ code = <<"x", "+", "1">>
    /\ pc = "fed"
    /\ Len(returned) = 2
    /\ returned[2].text = <<"+">>
    /\ p.peeks = <<>>
    /\ p.lexer.current = 2

\* the maximal run of operator characters at offset i
RECURSIVE OperatorRun(_, _)
OperatorRun(c, i) ==
    IF i < Len(c) /\ c[i + 1] \in OperatorChars
    THEN <<c[i + 1]>> \o OperatorRun(c, i + 1)
    ELSE <<>>

\* C26: every operator op of the precedence table, written between two
\* operands as in "x op y", is returned by the tokenizer as one operator
\* token of text op; and the tokenizer raises "Invalid operator" only when the
\* maximal run of operator characters it read is not in the operator list.
C26_OperatorsLexed ==
    [][(pc = "fed" /\ pc' = "fed" /\ p' # p) =>
          /\ (code \in OperatorSources /\ p.ret.type = "Ident" /\ p.ret.start = 0) =>
                \E op \in PrecedenceOps :
                    /\ code = Between(op)
                    /\ Ok(p')
                    /\ p'.ret = Token("Operator", op, 2, 1)
          /\ (p'.st = "error" /\ p'.msg = "Invalid operator") =>
                OperatorRun(code, SkipBlanks(code, p.lexer.current)) \notin Operators]_vars

\* a / 0 and a % 0
ZeroDivisions ==
    {Src(<<a, op, <<"0">>>>) : a \in {<<"2">>, <<"0">>}, op \in {<<"/">>, <<"%">>}}

\* C27: the fold of an integer division or modulo by the literal 0 does not
\* abort the program: it raises the structured error, or returns normally and
\* leaves the operator node in place.
C27_ZeroDivisionSafe ==
    (pc = "folded" /\ code \in ZeroDivisions) =>
        \/ p.st = "error"
        \/ (p.st = "ok" /\ tree # nullptr /\ p.heap[tree].type = "EBinop")

\* the child slots of node e, of every class
Children(h, e) ==
    CASE h[e].type = "EUnop" -> <<h[e].value>>
      [] h[e].type = "EBinop" -> <<h[e].left, h[e].right>>
      [] h[e].type = "EReturn" -> <<h[e].value>>
      [] h[e].type = "ECall" -> h[e].args
      [] h[e].type = "EBlock" -> h[e].body
      [] h[e].type = "ESwitch" -> <<h[e].value>> \o h[e].cases
      [] h[e].type = "ECaseCond" -> <<h[e].value, h[e].condition>>
      [] h[e].type = "ECase" -> <<h[e].body, h[e].condition>>
      [] h[e].type = "EFunction" -> <<h[e].body>> \o h[e].args
      [] h[e].type = "EAssign" -> <<h[e].value>> \o h[e].vars
      [] h[e].type = "EIf" -> <<h[e].condition, h[e].body, h[e].else_body>>
      [] OTHER -> <<>>

\* in the tree of root e every unary and binary node has its operands and
\* every call its arguments
RECURSIVE Complete(_, _)
Complete(h, e) ==
    /\ h[e].type \in {"EUnop", "EBinop", "ECall"} =>
           \A i \in 1 .. Len(Children(h, e)) : Children(h, e)[i] # nullptr
    /\ \A i \in 1 .. Len(Children(h, e)) :
           Children(h, e)[i] = nullptr \/ Complete(h, Children(h, e)[i])

\* C28: in every tree Parser::parse returns, each binary node has both
\* operands, each unary node its operand, and every element of the argument
\* list of a call is a node: for a missing operand or argument parse raises
\* an error.
C28_NoAbsentChild ==
    (pc = "parsed" /\ Ok(p) /\ tree # nullptr) => Complete(p.heap, tree)

\* node e is an integer literal
IsInt(h, e) == e # nullptr /\ h[e].type = "EConst" /\ h[e].const_type = "EConstInt"

\* node e is a +, -, * or / of two integer literals
Foldable(h, e) ==
    /\ h[e].type = "EBinop"
    /\ h[e].token.text \in {<<"+">>, <<"-">>, <<"*">>, <<"/">>}
    /\ IsInt(h, h[e].left)
    /\ IsInt(h, h[e].right)

\* no node of the tree of root e is foldable
RECURSIVE FullyFolded(_, _)
FullyFolded(h, e) ==
    /\ ~Foldable(h, e)
    /\ \A i \in 1 .. Len(Children(h, e)) :
           Children(h, e)[i] = nullptr \/ FullyFolded(h, Children(h, e)[i])

\* C29: after fold has returned normally on a parsed tree, no node of the
\* tree, the condition, the body and the else branch of an if and the
\* scrutinee of a switch included, is a binary node of operator +, -, * or /
\* with two integer literals as operands.
C29_FoldComplete ==
    (pc = "folded" /\ Ok(p) /\ tree # nullptr) => FullyFolded(p.heap, tree)

\* C30: the line number of every token the tokenizer returns is 1 plus the
\* number of newline characters before the byte offset of the token, also
\* for a token that follows a string literal holding newlines.
C30_TokenLine ==
    (pc = "fed" /\ Ok(p) /\ p.ret.type \notin {"None", "Eof"}) =>
        p.ret.lineno = 1 + strcount(SubSeq(code, 1, p.ret.start), "\n")

\* C30 for the sources without a newline inside a string literal
TokenLineOutsideStrings ==
    (pc = "fed" /\ Ok(p) /\ p.ret.type \notin {"None", "Eof"}
     /\ code \notin MultilineSources) =>
        p.ret.lineno = 1 + strcount(SubSeq(code, 1, p.ret.start), "\n")

====
